---- MODULE Spec2Model ----
(***************************************************************************)
(* Model of the load-test engine of pm_volume_tests:                       *)
(*   - StopManager            src/common/managers.py                       *)
(*   - LoadFlow               src/scenarios/load_test.py                   *)
(*   - Api._retry_request     src/common/API/load_api.py                   *)
(*   - Api._upload_chunks     src/common/API/load_api.py                   *)
(*   - Api._monitor_processing_status  src/common/API/load_api.py          *)
(*   - TC_LOAD_002_Concurrent src/scenarios/tc_load_002_concurrent.py      *)
(*   - DashboardPool, TC_LOAD_003_Heavy, TC_LOAD_003_Light                 *)
(*                            src/scenarios/tc_load_003_peak.py            *)
(*                                                                         *)
(* Scheduling.  The actors are Locust users, i.e. gevent greenlets: an     *)
(* actor runs without interruption until it blocks in a remote call or a   *)
(* sleep.  One action of the model is therefore the code an actor runs     *)
(* between two blocking points; the actions of different actors interleave *)
(* freely.                                                                 *)
(*                                                                         *)
(* TaskSet.interrupt() raises locust.exception.InterruptTaskSet, which is  *)
(* a subclass of Exception: an `except Exception` clause around the call   *)
(* catches it.  An interrupt that leaves the task ends the actor's task    *)
(* loop: pc = "interrupted", or "removed" after a failed authentication.   *)
(***************************************************************************)
EXTENDS Integers, Sequences, FiniteSets, TLC

(***************************************************************************)
(* Bounds of the model                                                     *)
(***************************************************************************)
NumActors == 2          \* actors of a LoadFlow run (locust -u NumActors)
MaxIterations == 2      \* largest quota CONFIG["max_iterations"] explored
MaxChunks == 2          \* largest chunk count of the input file explored

\* the one element of a singleton set; Only({ e(x) : x \in {v} }) is
\* "let x be the value of v in e(x)", with v evaluated once
Only(S) == CHOOSE x \in S : TRUE

Actors == 1..NumActors
UserIds == 1..NumActors \* values random.randint(10000, 99999) may return
None == 0 - 1           \* Python None where an integer is expected

VARIABLES
    CONFIG,        \* the configuration values the modelled code reads
    stop_manager,  \* the process-wide StopManager instance
    environment,   \* environment.stop_manager_initialized and environment.runner
    flow,          \* flow[a]: the LoadFlow instance of actor a and its position
    total_chunks,  \* count_chunks(csv_file_path, chunk_size) of the input file
    csv_file,      \* the input file at CONFIG["csv_file_path"]
    request,       \* the call of Api._retry_request in progress
    upload,        \* the call of Api._upload_chunks in progress
    poll,          \* the call of Api._monitor_processing_status in progress
    scenario,      \* the TC_LOAD_002_Concurrent task set of one user
    dashboard_pool,\* the process-wide DashboardPool of TC_LOAD_003
    peak,          \* the TC_LOAD_003 task sets: peak.heavy[h], peak.light[l]
    obs            \* history variables: what the claims observe

vars == <<CONFIG, stop_manager, environment, flow, total_chunks, csv_file,
          request, upload, poll, scenario, dashboard_pool, peak, obs>>

(***************************************************************************)
(* StopManager (src/common/managers.py)                                    *)
(***************************************************************************)
\* __init__: the state of the module-level instance stop_manager
StopManagerInit(cfg) ==
    [ iterations_per_user |-> cfg.max_iterations,
      total_users         |-> 1,
      completed_users     |-> 0,
      user_iterations     |-> << >>,
      should_stop         |-> FALSE,
      stop_called         |-> FALSE ]

\* setup_scenario leaving the acknowledgement of the last run in place
setup_scenario_keep_ack(sm, total_users, cfg) ==
    [ iterations_per_user |-> cfg.max_iterations,
      total_users         |-> IF total_users = None THEN 1 ELSE total_users,
      completed_users     |-> 0,
      user_iterations     |-> << >>,
      should_stop         |-> FALSE,
      stop_called         |-> sm.stop_called ]

setup_scenario(sm, total_users, cfg) ==
    [ iterations_per_user |-> cfg.max_iterations,
      total_users         |-> IF total_users = None THEN 1 ELSE total_users,
      completed_users     |-> 0,
      user_iterations     |-> << >>,
      should_stop         |-> FALSE,
      stop_called         |-> FALSE ]

\* user_completed_iteration with the stop requested one completed user early
user_completed_iteration_early(sm, user_id) ==
    LET its == IF user_id \in DOMAIN sm.user_iterations
               THEN sm.user_iterations
               ELSE sm.user_iterations @@ (user_id :> 0)
        n == its[user_id] + 1
        user_finished == n >= sm.iterations_per_user
        completed == IF user_finished THEN sm.completed_users + 1
                     ELSE sm.completed_users
        global_stop == completed + 1 >= sm.total_users
    IN  [ sm |-> [sm EXCEPT !.user_iterations = [its EXCEPT ![user_id] = n],
                            !.completed_users = completed,
                            !.should_stop = (global_stop /\ ~sm.should_stop) \/ @],
          user_finished |-> user_finished,
          global_stop |-> global_stop ]

\* returns the new state and the pair (user_finished, global_stop)
user_completed_iteration(sm, user_id) ==
    LET its == IF user_id \in DOMAIN sm.user_iterations
               THEN sm.user_iterations
               ELSE sm.user_iterations @@ (user_id :> 0)
        n == its[user_id] + 1
        user_finished == n >= sm.iterations_per_user
        completed == IF user_finished THEN sm.completed_users + 1
                     ELSE sm.completed_users
        global_stop == completed >= sm.total_users
    IN  [ sm |-> [sm EXCEPT !.user_iterations = [its EXCEPT ![user_id] = n],
                            !.completed_users = completed,
                            !.should_stop = (global_stop /\ ~sm.should_stop) \/ @],
          user_finished |-> user_finished,
          global_stop |-> global_stop ]

\* should_stop ignoring the acknowledgement
should_stop_sticky(sm) == sm.should_stop

should_stop(sm) == sm.should_stop /\ ~sm.stop_called

\* set_stop_called withdrawing the stop request
set_stop_called_clearing(sm) == [sm EXCEPT !.stop_called = TRUE, !.should_stop = FALSE]

set_stop_called(sm) == [sm EXCEPT !.stop_called = TRUE]

is_stop_called(sm) == sm.stop_called

\* sum(d.values()) of a dict d
RECURSIVE SumValues(_)
SumValues(d) ==
    IF DOMAIN d = {} THEN 0
    ELSE LET k == CHOOSE x \in DOMAIN d : TRUE
         IN  d[k] + SumValues([x \in DOMAIN d \ {k} |-> d[x]])

get_stats(sm) ==
    [ completed_users     |-> sm.completed_users,
      total_users         |-> sm.total_users,
      iterations_per_user |-> sm.iterations_per_user,
      total_iterations    |-> SumValues(sm.user_iterations),
      user_iterations     |-> sm.user_iterations,
      should_stop         |-> sm.should_stop,
      stop_called         |-> sm.stop_called ]

(***************************************************************************)
(* LoadFlow (src/scenarios/load_test.py)                                   *)
(*                                                                         *)
(* The handlers are operators on a world w = [sm, env, me, obs]: the       *)
(* StopManager, the environment, the calling LoadFlow instance and the     *)
(* history variables.                                                      *)
(***************************************************************************)
StageOrder == << "CREATE", "FETCH_PARAMS", "CONFIGURE", "RESOLVE_TARGET_DB",
                 "UPLOAD_START", "UPLOAD_CHUNKS", "UPLOAD_FINALIZE",
                 "PROCESS_START", "PROCESS_POLL" >>
Stages == { StageOrder[i] : i \in 1..Len(StageOrder) }
StageIndex(s) == CHOOSE i \in 1..Len(StageOrder) : StageOrder[i] = s

\* __init__
LoadFlowInit(uid) ==
    [ pc                    |-> "created",
      user_id               |-> uid,
      user_stop_triggered   |-> FALSE,
      global_stop_triggered |-> FALSE,
      logged_in             |-> FALSE,
      user_iteration_count  |-> 0,
      last_outcome          |-> "none" ]  \* outcome of the last answered stage call

\* getattr(runner, 'stopped', False): locust's Runner has a `state` and no
\* attribute `stopped`, so the default is what the call returns
runner_stopped(env) == FALSE

\* runner.stop()
runner_stop(env) == [env EXCEPT !.runner_stop_calls = @ + 1]

safe_stop_runner(w) ==
    IF w.me.user_stop_triggered \/ w.me.global_stop_triggered
    THEN w
    ELSE IF ~runner_stopped(w.env)
    THEN [w EXCEPT !.me.global_stop_triggered = TRUE,
                   !.sm = set_stop_called(w.sm),
                   !.env = runner_stop(w.env)]
    ELSE [w EXCEPT !.me.global_stop_triggered = TRUE]

\* _complete_iteration reporting only the successful iterations
complete_iteration_success_only(w, success) ==
    IF ~success THEN [w |-> w, raised |-> FALSE]
    ELSE
    Only({ IF r.global_stop
           THEN [w |-> safe_stop_runner(
                          [w EXCEPT !.sm = r.sm, !.obs.global_returns = @ + 1]),
                 raised |-> FALSE]
           ELSE IF r.user_finished
           THEN [w |-> [w EXCEPT !.sm = r.sm, !.me.user_stop_triggered = TRUE],
                 raised |-> TRUE]
           ELSE [w |-> [w EXCEPT !.sm = r.sm], raised |-> FALSE]
         : r \in {user_completed_iteration(w.sm, w.me.user_id)} })

\* _complete_iteration(success); raised: an InterruptTaskSet leaves the method.
\* The interrupt() of line 162 is raised inside the try of line 149, caught
\* by the handler of line 163, which sets the flag again and calls
\* interrupt() once more (line 166): that one leaves the method.
complete_iteration(w, success) ==
    Only({ IF r.global_stop
           THEN [w |-> safe_stop_runner(
                          [w EXCEPT !.sm = r.sm, !.obs.global_returns = @ + 1]),
                 raised |-> FALSE]
           ELSE IF r.user_finished
           THEN [w |-> [w EXCEPT !.sm = r.sm, !.me.user_stop_triggered = TRUE],
                 raised |-> TRUE]
           ELSE [w |-> [w EXCEPT !.sm = r.sm], raised |-> FALSE]
         : r \in {user_completed_iteration(w.sm, w.me.user_id)} })

\* the handler of lines 287-289: any Exception raised inside the try block
\* of create_and_upload_flow ends in a _complete_iteration(success=False)
unexpected_error(w) == complete_iteration(w, FALSE)

\* a _complete_iteration call made inside the try block (lines 207-285):
\* an InterruptTaskSet it raises is caught by the handler of line 287
complete_in_try(w, success) ==
    Only({ IF c.raised THEN unexpected_error(c.w) ELSE c
         : c \in {complete_iteration(w, success)} })

\* establish_session: the outcome of the authentication and what follows it;
\* self.interrupt() (line 70) raises out of the caller
establish_session(w, auth_ok) ==
    IF auth_ok
    THEN [w |-> [w EXCEPT !.me.logged_in = TRUE], raised |-> FALSE]
    ELSE [w |-> w, raised |-> TRUE]

\* on_start setting the StopManager up whenever a user starts
on_start_always_setup(w, cfg, total_users) ==
    Only({ IF w0.me.user_stop_triggered \/ w0.me.global_stop_triggered
           THEN [w |-> w0, login |-> FALSE]
           ELSE IF is_stop_called(w0.sm)
           THEN [w |-> [w0 EXCEPT !.me.global_stop_triggered = TRUE], login |-> FALSE]
           ELSE IF should_stop(w0.sm)
           THEN [w |-> safe_stop_runner(w0), login |-> FALSE]
           ELSE [w |-> w0, login |-> TRUE]
         : w0 \in { [w EXCEPT !.sm = setup_scenario(w.sm, total_users, cfg),
                              !.env.stop_manager_initialized = TRUE] } })

\* on_start up to the authentication request (lines 72-120);
\* login: the request of establish_session is issued
on_start(w, cfg, total_users) ==
    Only({ IF w0.me.user_stop_triggered \/ w0.me.global_stop_triggered
           THEN [w |-> w0, login |-> FALSE]
           ELSE IF is_stop_called(w0.sm)
           THEN [w |-> [w0 EXCEPT !.me.global_stop_triggered = TRUE], login |-> FALSE]
           ELSE IF should_stop(w0.sm)
           THEN [w |-> safe_stop_runner(w0), login |-> FALSE]
           ELSE [w |-> w0, login |-> TRUE]
         : w0 \in { IF ~w.env.stop_manager_initialized
                    THEN [w EXCEPT !.sm = setup_scenario(w.sm, total_users, cfg),
                                   !.env.stop_manager_initialized = TRUE]
                    ELSE w } })

\* task_start without the two stop checks of lines 179-185
task_start_unchecked(w, cfg) ==
    IF w.me.user_stop_triggered THEN [w |-> w, next |-> "return"]
    ELSE IF w.me.global_stop_triggered THEN [w |-> w, next |-> "return"]
    ELSE IF w.me.user_iteration_count >= cfg.max_iterations
    THEN [w |-> [w EXCEPT !.me.user_stop_triggered = TRUE], next |-> "interrupt"]
    ELSE [w |-> [w EXCEPT !.me.user_iteration_count = @ + 1],
          next |-> IF ~w.me.logged_in THEN "login" ELSE "CREATE"]

\* task_start without any of the guards of lines 172-191
task_start_unguarded(w, cfg) ==
    [w |-> [w EXCEPT !.me.user_iteration_count =
                        IF @ <= cfg.max_iterations THEN @ + 1 ELSE @],
     next |-> IF ~w.me.logged_in THEN "login" ELSE "CREATE"]

\* create_and_upload_flow up to its first remote call (lines 168-209);
\* next: "return", "interrupt", "login" or "CREATE"
task_start(w, cfg) ==
    IF w.me.user_stop_triggered THEN [w |-> w, next |-> "return"]
    ELSE IF w.me.global_stop_triggered THEN [w |-> w, next |-> "return"]
    ELSE IF is_stop_called(w.sm)
    THEN [w |-> [w EXCEPT !.me.global_stop_triggered = TRUE], next |-> "return"]
    ELSE IF should_stop(w.sm)
    THEN [w |-> safe_stop_runner(w), next |-> "return"]
    ELSE IF w.me.user_iteration_count >= cfg.max_iterations
    THEN [w |-> [w EXCEPT !.me.user_stop_triggered = TRUE], next |-> "interrupt"]
    ELSE [w |-> [w EXCEPT !.me.user_iteration_count = @ + 1],
          next |-> IF ~w.me.logged_in THEN "login" ELSE "CREATE"]

\* the outcomes of the remote call of a stage: it succeeds, it fails (the
\* helper returns a falsy value) or the helper raises; _upload_chunks
\* returns a count and never reports a failure
Outcomes(stage) ==
    IF stage = "UPLOAD_CHUNKS" THEN {"ok", "raise"} ELSE {"ok", "fail", "raise"}

\* the stage after a successful one, "DONE" when the iteration ends there:
\* after PROCESS_POLL, and at line 247 when the file has no chunk
next_stage(stage, chunks) ==
    IF stage = "PROCESS_POLL" THEN "DONE"
    ELSE IF stage = "RESOLVE_TARGET_DB" /\ chunks = 0 THEN "DONE"
    ELSE StageOrder[StageIndex(stage) + 1]

\* how the task ends after its last _complete_iteration: it returns, or the
\* InterruptTaskSet leaves it
task_end(c) ==
    Only({ [w |-> x.w, next |-> IF x.raised THEN "interrupt" ELSE "return"]
         : x \in {c} })

\* create_and_upload_flow going on with the next stage after a failed one
stage_done_resume(w, stage, outcome, chunks) ==
    Only({ IF outcome = "raise"
           THEN task_end(unexpected_error(w1))
           ELSE IF next_stage(stage, chunks) = "DONE"
           THEN task_end(complete_in_try(w1, outcome = "ok" /\ chunks # 0))
           ELSE [w |-> w1, next |-> next_stage(stage, chunks)]
         : w1 \in {[w EXCEPT !.me.last_outcome = outcome]} })

\* create_and_upload_flow from the answer of the call of `stage` to the
\* next remote call or the end of the task (lines 207-289);
\* next: the next stage, "return" or "interrupt"
stage_done(w, stage, outcome, chunks) ==
    Only({ IF outcome = "raise"
           THEN task_end(unexpected_error(w1))
           ELSE IF outcome = "fail" \/ next_stage(stage, chunks) = "DONE"
           THEN task_end(complete_in_try(w1, outcome = "ok" /\ chunks # 0))
           ELSE [w |-> w1, next |-> next_stage(stage, chunks)]
         : w1 \in {[w EXCEPT !.me.last_outcome = outcome]} })

(***************************************************************************)
(* Api._retry_request (src/common/API/load_api.py): the request executor   *)
(***************************************************************************)
MaxRetries == 3         \* largest CONFIG["max_retries"] explored
MaxSleep == 10          \* the cap of the executor's backoff sleep, seconds
RetryDelays == {2, 6}   \* values of CONFIG["retry_delay"] explored

\* what one call of method(url, ...) does: it raises, or it returns a
\* response with a status code
StatusCodes == {200, 399, 400, 499, 500}
Responded(code) == [raised |-> FALSE, status_code |-> code]
Raised == [raised |-> TRUE, status_code |-> 0]
AttemptOutcomes == {Responded(code) : code \in StatusCodes} \cup {Raised}

\* the state of one call of _retry_request.  response is the value
\* returned (a status code stands for the response object, None for None),
\* failure records response.failure(), escaped an exception leaving the call
RequestInit ==
    [ pc |-> "idle", attempt |-> 0, history |-> << >>, sleeps |-> << >>,
      response |-> None, failure |-> FALSE, escaped |-> FALSE ]

\* entering the for loop over range(max_retries)
retry_call(cfg) ==
    IF cfg.max_retries = 0
    THEN [RequestInit EXCEPT !.pc = "returned"]
    ELSE [RequestInit EXCEPT !.pc = "attempt"]

\* after a server error or an exception: the sleep of line 128, or the end
\* of the loop and `return None`
retry_after_failure(req, cfg) ==
    IF req.attempt < cfg.max_retries - 1
    THEN [req EXCEPT !.pc = "sleep"]
    ELSE [req EXCEPT !.pc = "returned", !.response = None]

\* retry_attempt in which a client error is handled like a server error
retry_attempt_retry_client(req, outcome, cfg) ==
    LET r == [req EXCEPT !.history = Append(@, outcome)]
    IN  IF ~outcome.raised /\ outcome.status_code < 400
        THEN [r EXCEPT !.pc = "returned", !.response = outcome.status_code]
        ELSE retry_after_failure(r, cfg)

\* retry_attempt in which an exception of the method leaves the call
retry_attempt_propagate(req, outcome, cfg) ==
    LET r == [req EXCEPT !.history = Append(@, outcome)]
    IN  IF outcome.raised
        THEN [r EXCEPT !.pc = "returned", !.escaped = TRUE]
        ELSE IF outcome.status_code < 400
        THEN [r EXCEPT !.pc = "returned", !.response = outcome.status_code]
        ELSE IF outcome.status_code < 500
        THEN [r EXCEPT !.pc = "returned", !.response = outcome.status_code,
                       !.failure = TRUE]
        ELSE retry_after_failure(r, cfg)

\* one iteration of the loop up to the sleep: the try block and its
\* except Exception clause
retry_attempt(req, outcome, cfg) ==
    LET r == [req EXCEPT !.history = Append(@, outcome)]
    IN  IF outcome.raised
        THEN retry_after_failure(r, cfg)
        ELSE IF outcome.status_code < 400
        THEN [r EXCEPT !.pc = "returned", !.response = outcome.status_code]
        ELSE IF outcome.status_code < 500
        THEN [r EXCEPT !.pc = "returned", !.response = outcome.status_code,
                       !.failure = TRUE]
        ELSE retry_after_failure(r, cfg)

\* retry_sleep without the ceiling of the delay
retry_sleep_uncapped(req, cfg) ==
    [req EXCEPT !.sleeps = Append(@, cfg.retry_delay * (2 ^ req.attempt)),
                !.attempt = @ + 1,
                !.pc = "attempt"]

\* time.sleep(min(retry_delay * 2 ** attempt, 10)) and the next iteration
retry_sleep(req, cfg) ==
    LET delay == cfg.retry_delay * (2 ^ req.attempt)
    IN  [req EXCEPT !.sleeps = Append(@, IF delay < MaxSleep THEN delay ELSE MaxSleep),
                    !.attempt = @ + 1,
                    !.pc = "attempt"]

\* a whole call: outcomes[i] is what the i-th call of the method does
RECURSIVE retry_request_from(_, _, _)
retry_request_from(req, cfg, outcomes) ==
    IF req.pc = "returned" THEN req
    ELSE IF req.pc = "sleep" THEN retry_request_from(retry_sleep(req, cfg), cfg, outcomes)
    ELSE retry_request_from(retry_attempt(req, outcomes[req.attempt + 1], cfg),
                            cfg, outcomes)

retry_request(cfg, outcomes) == retry_request_from(retry_call(cfg), cfg, outcomes)

\* requests.Response.ok: raise_for_status() does not raise
response_ok(status_code) == ~(400 <= status_code /\ status_code < 600)

(***************************************************************************)
(* csv_utils and Api._upload_chunks: the upload pipeline.  The input file  *)
(* is [exists, chunks]: whether the path exists and the number of chunks   *)
(* split_csv_generator cuts it into (all of them non-empty)                *)
(***************************************************************************)
\* the values the generator yields: None for a missing file, else the
\* chunks, numbered from 1
split_csv_generator(file) ==
    IF ~file.exists THEN <<None>> ELSE [i \in 1..file.chunks |-> i]

count_chunks(file) ==
    IF ~file.exists THEN 0 ELSE Len(split_csv_generator(file))

CsvFiles ==
    {[exists |-> FALSE, chunks |-> 0]} \cup
    {[exists |-> TRUE, chunks |-> n] : n \in 0..MaxChunks}

\* _retry_request returned a response with a client error 400-499
client_error(raised, resp) == ~raised /\ resp # None /\ 400 <= resp /\ resp < 500

\* the state of one call of _upload_chunks.  tries[c], acks[c], counted[c]
\* and order are history: the attempts made for chunk c, the answers with
\* resp.ok, the increments of uploaded_chunks, and the chunks in the order
\* of their first attempt
\* refused, reissued and continued are history too: the last chunk whose
\* transfer was answered with a client error (0: none), whether that chunk
\* was attempted again, and whether a later chunk was attempted after it
UploadInit ==
    [ pc |-> "idle", generator |-> << >>, index |-> 0, attempt |-> 0,
      success |-> FALSE, uploaded_chunks |-> 0, sleeps |-> << >>,
      tries |-> << >>, acks |-> << >>, counted |-> << >>, order |-> << >>,
      refused |-> 0, reissued |-> FALSE, continued |-> FALSE,
      escaped |-> FALSE ]

upload_call(file) ==
    [UploadInit EXCEPT !.pc = "next_chunk",
                       !.generator = split_csv_generator(file),
                       !.tries = [c \in 1..count_chunks(file) |-> 0],
                       !.acks = [c \in 1..count_chunks(file) |-> 0],
                       !.counted = [c \in 1..count_chunks(file) |-> 0]]

\* the head of the loop over the generator, and the end of the call
upload_next_chunk(up, cfg) ==
    IF up.index = Len(up.generator)
    THEN [up EXCEPT !.pc = "returned"]
    ELSE IF up.generator[up.index + 1] = None
    THEN [up EXCEPT !.index = @ + 1]
    ELSE [up EXCEPT !.index = @ + 1, !.success = FALSE, !.attempt = 0,
                    !.sleeps = << >>,
                    !.pc = IF cfg.max_retries = 0 THEN "next_chunk" ELSE "attempt"]

\* after an attempt without success: the sleep of line 336, or the next chunk
upload_after_failure(up, cfg) ==
    IF up.attempt < cfg.max_retries - 1
    THEN [up EXCEPT !.pc = "sleep"]
    ELSE [up EXCEPT !.pc = "next_chunk"]

\* upload_attempt without the break after a counted chunk
upload_attempt_no_break(up, raised, resp, cfg) ==
    LET c == up.generator[up.index]
        u == [up EXCEPT !.tries[c] = @ + 1,
                        !.order = IF up.tries[c] = 0 THEN Append(@, c) ELSE @,
                        !.reissued = @ \/ up.refused = c,
                        !.continued = @ \/ (up.refused # 0 /\ up.refused # c),
                        !.refused = IF client_error(raised, resp) THEN c ELSE @]
    IN  IF ~raised /\ resp # None /\ response_ok(resp)
        THEN [u EXCEPT !.uploaded_chunks = @ + 1, !.success = TRUE,
                       !.acks[c] = @ + 1, !.counted[c] = @ + 1,
                       !.attempt = IF up.attempt < cfg.max_retries - 1 THEN @ + 1 ELSE @,
                       !.pc = IF up.attempt < cfg.max_retries - 1
                              THEN "attempt" ELSE "next_chunk"]
        ELSE upload_after_failure(u, cfg)

\* upload_attempt in which a chunk out of attempts ends the upload
upload_attempt_abort(up, raised, resp, cfg) ==
    LET c == up.generator[up.index]
        u == [up EXCEPT !.tries[c] = @ + 1,
                        !.order = IF up.tries[c] = 0 THEN Append(@, c) ELSE @,
                        !.reissued = @ \/ up.refused = c,
                        !.continued = @ \/ (up.refused # 0 /\ up.refused # c),
                        !.refused = IF client_error(raised, resp) THEN c ELSE @]
    IN  IF ~raised /\ resp # None /\ response_ok(resp)
        THEN [u EXCEPT !.uploaded_chunks = @ + 1, !.success = TRUE,
                       !.acks[c] = @ + 1, !.counted[c] = @ + 1,
                       !.pc = "next_chunk"]
        ELSE IF up.attempt < cfg.max_retries - 1
        THEN [u EXCEPT !.pc = "sleep"]
        ELSE [u EXCEPT !.pc = "returned"]

\* one attempt for the current chunk: the try block of line 279 and its
\* except Exception clause.  raised: the block raised before an answer was
\* looked at; resp: the value _retry_request returned
upload_attempt(up, raised, resp, cfg) ==
    LET c == up.generator[up.index]
        u == [up EXCEPT !.tries[c] = @ + 1,
                        !.order = IF up.tries[c] = 0 THEN Append(@, c) ELSE @,
                        !.reissued = @ \/ up.refused = c,
                        !.continued = @ \/ (up.refused # 0 /\ up.refused # c),
                        !.refused = IF client_error(raised, resp) THEN c ELSE @]
    IN  IF ~raised /\ resp # None /\ response_ok(resp)
        THEN [u EXCEPT !.uploaded_chunks = @ + 1, !.success = TRUE,
                       !.acks[c] = @ + 1, !.counted[c] = @ + 1,
                       !.pc = "next_chunk"]
        ELSE upload_after_failure(u, cfg)

\* upload_sleep with the same delay before every attempt
upload_sleep_constant(up, cfg) ==
    [up EXCEPT !.sleeps = Append(@, cfg.retry_delay),
               !.attempt = @ + 1,
               !.pc = "attempt"]

\* time.sleep(retry_delay * (attempt + 1)) and the next attempt
upload_sleep(up, cfg) ==
    [up EXCEPT !.sleeps = Append(@, cfg.retry_delay * (up.attempt + 1)),
               !.attempt = @ + 1,
               !.pc = "attempt"]

(***************************************************************************)
(* Api._monitor_processing_status: the status poller.  Time is counted in  *)
(* ticks since start_time; a status request takes Latencies ticks, a sleep *)
(* takes pool_interval ticks                                               *)
(***************************************************************************)
MaxWaitTime == 5        \* largest timeout (max_wait_time) explored, ticks
PollIntervals == {2, 3} \* values of CONFIG["upload_control"]["pool_interval"]
Latencies == {0, 1}     \* ticks a call of _retry_request may take
BlockIds == {1, 2}      \* block_id values of a PM flow
BlockRunIds == {1, 2}   \* block_run_id values; None: reported without one

\* result.status / status of the parsed answer; "missing" is an answer
\* without the key (None), "queued" a value the code does not know
NonTerminalStatuses == {"pending", "running", "queued", "missing"}
ParsedStatuses == {"success", "failed"} \cup NonTerminalStatuses

\* result.blocks of a PM answer: the blocks listed, each with a
\* block_run_id or None
BlockReports ==
    UNION { [bs -> BlockRunIds \cup {None}] : bs \in SUBSET BlockIds }

\* what a status request gives: no usable response (None or not ok), a body
\* json() cannot parse, or a parsed body
RequestFailed == [ok |-> FALSE, parsed |-> FALSE, status |-> "missing", blocks |-> << >>]
Unparsable == [ok |-> TRUE, parsed |-> FALSE, status |-> "missing", blocks |-> << >>]
Parsed(status, blocks) == [ok |-> TRUE, parsed |-> TRUE, status |-> status, blocks |-> blocks]
StatusReplies(is_pm_flow) ==
    {RequestFailed, Unparsable} \cup
    { Parsed(s, b) : s \in ParsedStatuses,
                     b \in IF is_pm_flow THEN BlockReports ELSE {<< >>} }

\* _validate_row_count: the answer of the count query against expected_rows
\* "no_response": None or a status other than 200; "no_data": no data rows;
\* "raised": an exception inside the try
ValidationOutcomes == {"equal", "different", "no_data", "no_response", "raised"}
validate_row_count(outcome) == outcome = "equal"

\* the values _monitor_processing_status returns
ReturnTrue == [value |-> "True", block_run_ids |-> << >>]
ReturnFalse == [value |-> "False", block_run_ids |-> << >>]
ReturnDict(block_run_ids) == [value |-> "dict", block_run_ids |-> block_run_ids]
NotReturned == [value |-> "none", block_run_ids |-> << >>]

\* the state of one call.  replies, sleeps, cause, validation, reported and
\* last_blocks are history: the answers seen, the sleeps made, the branch
\* that returned, the outcome of the validation, the last run id reported
\* per block, and the blocks the last answer reported with a run id
PollInit ==
    [ pc |-> "idle", is_pm_flow |-> FALSE, validate |-> FALSE, max_wait_time |-> 0,
      elapsed |-> 0, poll_count |-> 0, sleeps |-> 0, replies |-> << >>,
      block_run_ids |-> << >>, reported |-> << >>, last_blocks |-> {},
      validation |-> "none",
      result |-> NotReturned, cause |-> "none", escaped |-> FALSE ]

\* entry: is_pm_flow, timeout, and whether db_id, target_schema and
\* total_lines are given
poll_call(is_pm_flow, validate, timeout) ==
    [PollInit EXCEPT !.pc = "check", !.is_pm_flow = is_pm_flow,
                     !.validate = validate, !.max_wait_time = timeout]

\* poll_check without the stop test
poll_check_unstoppable(p, sm) ==
    IF ~(p.elapsed < p.max_wait_time)
    THEN [p EXCEPT !.pc = "returned", !.result = ReturnFalse, !.cause = "timeout"]
    ELSE [p EXCEPT !.pc = "request", !.poll_count = @ + 1]

\* poll_check with the deadline test `<=` in place of `<`
poll_check_late(p, sm) ==
    IF ~(p.elapsed <= p.max_wait_time)
    THEN [p EXCEPT !.pc = "returned", !.result = ReturnFalse, !.cause = "timeout"]
    ELSE IF is_stop_called(sm)
    THEN [p EXCEPT !.pc = "returned", !.result = ReturnFalse, !.cause = "stopped"]
    ELSE [p EXCEPT !.pc = "request", !.poll_count = @ + 1]

\* the while condition and the stop test at the head of the loop
poll_check(p, sm) ==
    IF ~(p.elapsed < p.max_wait_time)
    THEN [p EXCEPT !.pc = "returned", !.result = ReturnFalse, !.cause = "timeout"]
    ELSE IF is_stop_called(sm)
    THEN [p EXCEPT !.pc = "returned", !.result = ReturnFalse, !.cause = "stopped"]
    ELSE [p EXCEPT !.pc = "request", !.poll_count = @ + 1]

\* collect_block_run_ids that keeps the blocks of the last answer only
collect_block_run_ids_last(ids, blocks) ==
    [ b \in {c \in DOMAIN blocks : blocks[c] # None} |-> blocks[b] ]

\* the loop over result.blocks: block_run_ids[block_id] = block_run_id for
\* the blocks reported with both
collect_block_run_ids(ids, blocks) ==
    [ b \in DOMAIN ids \cup {c \in DOMAIN blocks : blocks[c] # None} |->
        IF b \in DOMAIN blocks /\ blocks[b] # None THEN blocks[b] ELSE ids[b] ]

\* poll_success that returns the result of the validation
poll_success_validated(p, validation) ==
    LET checked == ~p.is_pm_flow /\ p.validate
    IN  [p EXCEPT !.pc = "returned", !.cause = "success",
                  !.validation = IF checked THEN validation ELSE "none",
                  !.result = IF p.is_pm_flow THEN ReturnDict(p.block_run_ids)
                             ELSE IF checked /\ ~validate_row_count(validation)
                             THEN ReturnFalse ELSE ReturnTrue]

\* current_status == "success": the validation of a file flow, and the
\* value returned
poll_success(p, validation) ==
    LET checked == ~p.is_pm_flow /\ p.validate
    IN  [p EXCEPT !.pc = "returned", !.cause = "success",
                  !.validation = IF checked THEN validation ELSE "none",
                  !.result = IF p.is_pm_flow THEN ReturnDict(p.block_run_ids)
                             ELSE ReturnTrue]

\* current_status == "failed"
poll_failed(p) ==
    [p EXCEPT !.pc = "returned", !.cause = "failed", !.result = ReturnFalse]

\* poll_continue that gives the call up
poll_continue_give_up(p) ==
    [p EXCEPT !.pc = "returned", !.cause = "failed", !.result = ReturnFalse]

\* any other status, and a request without a usable response: on to the
\* sleep at the end of the loop body
poll_continue(p) == [p EXCEPT !.pc = "sleep"]

\* the body of the loop after the request: lines 476-577
poll_reply(p, reply, latency, validation) ==
    LET q == [p EXCEPT !.elapsed = @ + latency,
                       !.replies = Append(@, IF ~reply.ok THEN "request_failed"
                                             ELSE IF ~reply.parsed THEN "unparsable"
                                             ELSE reply.status),
                       !.reported = [b \in DOMAIN @ \cup
                                       {c \in DOMAIN reply.blocks : reply.blocks[c] # None} |->
                                       IF b \in DOMAIN reply.blocks /\ reply.blocks[b] # None
                                       THEN reply.blocks[b] ELSE @[b]],
                       !.last_blocks = {c \in DOMAIN reply.blocks : reply.blocks[c] # None}]
    IN  IF ~reply.ok THEN poll_continue(q)
        ELSE IF ~reply.parsed
        THEN [q EXCEPT !.pc = "returned", !.cause = "raised", !.escaped = TRUE]
        ELSE LET r == IF p.is_pm_flow
                      THEN [q EXCEPT !.block_run_ids =
                                        collect_block_run_ids(@, reply.blocks)]
                      ELSE q
             IN  IF reply.status = "success" THEN poll_success(r, validation)
                 ELSE IF reply.status = "failed" THEN poll_failed(r)
                 ELSE poll_continue(r)

\* poll_sleep that sleeps one tick whatever the interval
poll_sleep_short(p, cfg) ==
    [p EXCEPT !.elapsed = @ + 1, !.sleeps = @ + 1, !.pc = "check"]

\* time.sleep(pool_interval) at the end of the loop body
poll_sleep(p, cfg) ==
    [p EXCEPT !.elapsed = @ + cfg.pool_interval, !.sleeps = @ + 1, !.pc = "check"]

(***************************************************************************)
(* TC_LOAD_002_Concurrent.run_concurrent_scenario (and, with the same      *)
(* structure, TC_LOAD_003_Heavy.heavy_etl_scenario): one task run is one   *)
(* iteration; its record is an entry of the collector's test_runs          *)
(***************************************************************************)
MaxScenarioRuns == 2    \* task runs of the scenario explored

ScenarioStageOrder ==
    << "CREATE", "DAG_PARAMS", "UPDATE", "DB_ID", "START_UPLOAD", "UPLOAD_CHUNKS",
       "FINALIZE", "START_PROCESS", "PROCESS_POLL",
       "PM_PARAMS", "PM_CREATE", "PM_START", "PM_POLL", "DASHBOARD" >>
ScenarioStages == { ScenarioStageOrder[i] : i \in 1..Len(ScenarioStageOrder) }
ScenarioStageIndex(s) == CHOOSE i \in 1..Len(ScenarioStageOrder) : ScenarioStageOrder[i] = s

\* last_end is history: how the last task run ended
ScenarioInit(logged_in) ==
    [ pc |-> "idle", logged_in |-> logged_in, runs_started |-> 0,
      test_runs |-> << >>, last_end |-> "none" ]

\* the head of the task: the session, then the start of the scenario
scenario_start(sc, auth_ok) ==
    IF ~sc.logged_in /\ ~auth_ok
    THEN [sc EXCEPT !.pc = "interrupted"]
    ELSE [sc EXCEPT !.logged_in = TRUE, !.runs_started = @ + 1, !.pc = "CREATE"]

\* register_test_run({'success': ...})
register_test_run(sc, success) ==
    [sc EXCEPT !.test_runs = Append(@, [success |-> success])]

\* one stage of the try block and the test of its result; a dashboard that
\* does not load is only logged
scenario_stage_done(sc, stage, outcome, chunks) ==
    IF outcome = "raise"
    THEN [register_test_run(sc, FALSE) EXCEPT !.pc = "idle", !.last_end = "raised"]
    ELSE IF outcome = "fail" /\ stage # "DASHBOARD"
    THEN [sc EXCEPT !.pc = "idle", !.last_end = "failed_stage"]
    ELSE IF stage = "DB_ID" /\ chunks = 0
    THEN [sc EXCEPT !.pc = "idle", !.last_end = "failed_stage"]
    ELSE IF stage = "DASHBOARD"
    THEN [register_test_run(sc, TRUE) EXCEPT !.pc = "idle", !.last_end = "completed"]
    ELSE [sc EXCEPT !.pc = ScenarioStageOrder[ScenarioStageIndex(stage) + 1]]

(***************************************************************************)
(* DashboardPool (src/scenarios/tc_load_003_peak.py): the dashboards the   *)
(* heavy users hand over to the light users.  An entry is the pair         *)
(* <<url, owner>>; its third component, the time of the add, is never read *)
(* and is left out.                                                        *)
(***************************************************************************)
PoolSleep == 5               \* the sleep between two checks of a waiter, seconds
PoolTimeouts == {3, 7}       \* values of the timeout of a waiter explored, seconds
DashboardUrls == {101, 102}  \* the urls an artefact lookup may return
HeavyUsers == {1, 2}         \* TC_LOAD_003_Heavy users, named by their username
LightUsers == {1}            \* TC_LOAD_003_Light users

\* __init__
DashboardPoolInit == [dashboards |-> << >>]

\* add keeping only the dashboard added last
add_replacing(pool, url, owner) ==
    [pool EXCEPT !.dashboards = << <<url, owner>> >>]

add(pool, url, owner) ==
    [pool EXCEPT !.dashboards = Append(@, <<url, owner>>)]

\* get_random returning any url, in the pool or not
get_random_any(pool) == DashboardUrls \cup {None}

\* the values get_random may return: random.choice picks any entry
get_random(pool) ==
    IF pool.dashboards # << >>
    THEN { pool.dashboards[i][1] : i \in 1..Len(pool.dashboards) }
    ELSE {None}

has_dashboards(pool) == Len(pool.dashboards) > 0

count(pool) == Len(pool.dashboards)

\* one call of wait_until_available.  elapsed is time.time() - start at the
\* last check; available_at_call and seen keep what has_dashboards returned
\* at the first and at the last check; result is the value returned once
\* pc = "returned"
WaitInit ==
    [ pc |-> "none", timeout |-> 0, elapsed |-> 0, slept |-> FALSE,
      available_at_call |-> FALSE, seen |-> FALSE, result |-> FALSE ]

\* the loop of wait_until_available giving the pool the benefit of the
\* doubt when the timeout has elapsed
wait_check_optimistic(w, pool) ==
    Only({ IF has \/ w.elapsed > w.timeout
           THEN [w EXCEPT !.seen = has, !.pc = "returned", !.result = TRUE]
           ELSE [w EXCEPT !.seen = has, !.pc = "sleep", !.slept = TRUE]
         : has \in {has_dashboards(pool)} })

\* one turn of the loop of wait_until_available (lines 77-81), up to the
\* return or the sleep
wait_check(w, pool) ==
    Only({ IF has
           THEN [w EXCEPT !.seen = has, !.pc = "returned", !.result = TRUE]
           ELSE IF w.elapsed > w.timeout
           THEN [w EXCEPT !.seen = has, !.pc = "returned", !.result = FALSE]
           ELSE [w EXCEPT !.seen = has, !.pc = "sleep", !.slept = TRUE]
         : has \in {has_dashboards(pool)} })

wait_until_available(pool, timeout) ==
    wait_check([WaitInit EXCEPT !.timeout = timeout,
                                !.available_at_call = has_dashboards(pool)],
               pool)

\* the end of a sleep that took no time
wait_wake_frozen(w, pool) == wait_check(w, pool)

\* time.sleep(5) is over: the next turn of the loop
wait_wake(w, pool) == wait_check([w EXCEPT !.elapsed = @ + PoolSleep], pool)

(***************************************************************************)
(* TC_LOAD_003_Light (src/scenarios/tc_load_003_peak.py).  The counters    *)
(* and timings the tasks keep for the report are left out.                 *)
(***************************************************************************)
\* __init__
LightInit == [pc |-> "created", logged_in |-> FALSE, wait |-> WaitInit]

\* where on_start goes after a step of its wait_until_available call
light_after_wait(me, w) ==
    [me EXCEPT !.wait = w,
               !.pc = IF w.pc = "sleep" THEN "waiting"
                      ELSE IF w.result THEN "running" ELSE "interrupted"]

\* on_start from the answer of the authentication request to the first
\* sleep of wait_until_available, or to its end
light_on_start(me, pool, auth_ok, timeout) ==
    IF ~auth_ok
    THEN [me EXCEPT !.pc = "interrupted"]
    ELSE light_after_wait([me EXCEPT !.logged_in = TRUE],
                          wait_until_available(pool, timeout))

\* on_start after a sleep of wait_until_available
light_wake(me, pool) == light_after_wait(me, wait_wake(me.wait, pool))

(***************************************************************************)
(* TC_LOAD_003_Heavy (src/scenarios/tc_load_003_peak.py).  The handlers    *)
(* are operators on w = [me, pool].  The record of the run in the metrics  *)
(* collector is left out.                                                  *)
(***************************************************************************)
MaxHeavyRuns == 1       \* task runs per heavy user explored

HeavyStageOrder == << "CREATE", "DAG_PARAMS", "UPDATE", "DB_ID", "START_UPLOAD",
                      "UPLOAD_CHUNKS", "FINALIZE", "START_PROCESS",
                      "PROCESS_POLL", "PM_PARAMS", "PM_CREATE", "PM_START",
                      "PM_POLL", "ARTEFACTS", "OPEN_DASHBOARD" >>
HeavyStages == { HeavyStageOrder[i] : i \in 1..Len(HeavyStageOrder) }
HeavyStageIndex(s) == CHOOSE i \in 1..Len(HeavyStageOrder) : HeavyStageOrder[i] = s

\* what the call of a stage gives: its kind as in Outcomes, and the value
\* the scenario reads from it: the block_run_id of the dashboard block in
\* the result of the second poll, the url the artefact lookup returns
HeavyOutcome(kind, value) == [kind |-> kind, value |-> value]
HeavyOutcomes(stage) ==
    CASE stage = "PM_POLL" ->
           { HeavyOutcome("ok", v) : v \in BlockRunIds \cup {None} }
              \cup { HeavyOutcome(k, None) : k \in {"fail", "raise"} }
      [] stage = "ARTEFACTS" ->
           { HeavyOutcome("ok", u) : u \in DashboardUrls }
              \cup { HeavyOutcome(k, None) : k \in {"fail", "raise"} }
      [] OTHER -> { HeavyOutcome(k, None) : k \in Outcomes(stage) }

\* __init__; the last four fields are the locals success, pm_result,
\* dashboard_url and dashboard_loaded of the task run
HeavyInit(username) ==
    [ pc               |-> "created",
      username         |-> username,
      logged_in        |-> FALSE,
      runs_started     |-> 0,
      last_end         |-> "none",
      success          |-> FALSE,
      pm_success       |-> FALSE,
      dashboard_url    |-> None,
      dashboard_loaded |-> FALSE ]

\* on_start: the authentication request is answered
heavy_on_start(me, auth_ok) ==
    IF auth_ok THEN [me EXCEPT !.logged_in = TRUE, !.pc = "idle"]
    ELSE [me EXCEPT !.pc = "interrupted"]

\* heavy_etl_scenario up to its first remote call: the user is logged in
\* since on_start
heavy_start(me) ==
    [me EXCEPT !.pc = "CREATE", !.runs_started = @ + 1,
               !.success = FALSE, !.pm_success = FALSE,
               !.dashboard_url = None, !.dashboard_loaded = FALSE]

heavy_end(w, how) == [w EXCEPT !.me.pc = "idle", !.me.last_end = how]

\* the dashboard registered whether it loaded or not
dashboard_opened_unchecked(w, dashboard_loaded) ==
    [w EXCEPT !.me.dashboard_loaded = dashboard_loaded,
              !.pool = add(w.pool, w.me.dashboard_url, w.me.username)]

\* lines 704-715: the dashboard that loaded is added to the pool
dashboard_opened(w, dashboard_loaded) ==
    IF dashboard_loaded
    THEN [w EXCEPT !.me.dashboard_loaded = TRUE,
                   !.pool = add(w.pool, w.me.dashboard_url, w.me.username)]
    ELSE [w EXCEPT !.me.dashboard_loaded = FALSE]

\* heavy_etl_scenario from the answer of the call of `stage` to the next
\* remote call or the end of the task run (lines 546-759)
heavy_stage_done(w, stage, outcome, chunks) ==
    IF outcome.kind = "raise" THEN heavy_end(w, "raised")
    ELSE IF stage = "OPEN_DASHBOARD"
    THEN heavy_end(dashboard_opened(w, outcome.kind = "ok"), "completed")
    ELSE IF stage = "ARTEFACTS"
    THEN IF outcome.kind = "ok"
         THEN [w EXCEPT !.me.dashboard_url = outcome.value,
                        !.me.pc = "OPEN_DASHBOARD"]
         ELSE heavy_end(w, "completed")
    ELSE IF outcome.kind = "fail" THEN heavy_end(w, "failed_stage")
    ELSE IF stage = "DB_ID" /\ chunks = 0 THEN heavy_end(w, "failed_stage")
    ELSE IF stage = "PROCESS_POLL"
    THEN [w EXCEPT !.me.success = TRUE, !.me.pc = "PM_PARAMS"]
    ELSE IF stage = "PM_POLL"
    THEN IF outcome.value # None
         THEN [w EXCEPT !.me.pm_success = TRUE, !.me.pc = "ARTEFACTS"]
         ELSE heavy_end([w EXCEPT !.me.pm_success = TRUE], "completed")
    ELSE [w EXCEPT !.me.pc = HeavyStageOrder[HeavyStageIndex(stage) + 1]]

\* no TC_LOAD_003 user
PeakInit == [heavy |-> << >>, light |-> << >>]

(***************************************************************************)
(* The LoadFlow run: NumActors users, each running one LoadFlow task set   *)
(***************************************************************************)
World(a) ==
    Only({ x : x \in {[sm |-> stop_manager, env |-> environment,
                       me |-> flow[a], obs |-> obs]} })

\* the position of the actor after a handler step
PcAfter(next) ==
    CASE next = "return"    -> "idle"
      [] next = "interrupt" -> "interrupted"
      [] next = "login"     -> "task_login"
      [] OTHER              -> next

Commit(a, w, pc) ==
    /\ stop_manager' = w.sm
    /\ environment' = w.env
    /\ obs' = w.obs
    /\ flow' = [flow EXCEPT ![a] = [w.me EXCEPT !.pc = pc]]
    /\ UNCHANGED <<CONFIG, total_chunks, csv_file, request, upload, poll, scenario,
                   dashboard_pool, peak>>

ConfigDefault ==
    [max_iterations |-> 1, max_retries |-> 3, retry_delay |-> 2, pool_interval |-> 5]

\* the user ids the actors draw, up to the names of the ids:
\* random.randint(10000, 99999) gives every actor an id of its own, or
\* returns to actor 2 the id it returned to actor 1
UserIdDraws ==
    { [a \in Actors |-> a], [a \in Actors |-> IF a = 2 THEN 1 ELSE a] }

Init ==
    /\ \E k \in 1..MaxIterations : CONFIG = [ConfigDefault EXCEPT !.max_iterations = k]
    /\ stop_manager = StopManagerInit(CONFIG)
    /\ environment = [stop_manager_initialized |-> FALSE, runner_stop_calls |-> 0]
    /\ \E ids \in UserIdDraws : flow = [a \in Actors |-> LoadFlowInit(ids[a])]
    /\ csv_file \in {f \in CsvFiles : f.chunks \in {0, MaxChunks}}
    /\ total_chunks = count_chunks(csv_file)
    /\ request = RequestInit
    /\ upload = UploadInit
    /\ poll = PollInit
    /\ scenario = ScenarioInit(FALSE)
    /\ dashboard_pool = DashboardPoolInit
    /\ peak = PeakInit
    /\ obs = [global_returns |-> 0]

\* LoadFlow.on_start; the run was started with -u NumActors
OnStart(a) ==
    /\ flow[a].pc = "created"
    /\ \E r \in {on_start(World(a), CONFIG, NumActors)} :
          Commit(a, r.w, IF r.login THEN "login" ELSE "idle")

\* the authentication request of establish_session is answered
Login(a) ==
    /\ flow[a].pc \in {"login", "task_login"}
    /\ \E auth_ok \in BOOLEAN :
          \E r \in {establish_session(World(a), auth_ok)} :
              IF r.raised
              THEN Commit(a, r.w, "removed")
              ELSE IF flow[a].pc = "login"
              THEN Commit(a, r.w, "idle")
              ELSE Commit(a, r.w, "CREATE")

\* the task create_and_upload_flow is scheduled
TaskStart(a) ==
    /\ flow[a].pc = "idle"
    /\ \E r \in {task_start(World(a), CONFIG)} :
          Commit(a, r.w, PcAfter(r.next))

\* the remote call of the stage the actor is in is answered
RunStage(a) ==
    /\ flow[a].pc \in Stages
    /\ \E outcome \in Outcomes(flow[a].pc) :
          \E r \in {stage_done(World(a), flow[a].pc, outcome, total_chunks)} :
              Commit(a, r.w, PcAfter(r.next))

ActorStep(a) == OnStart(a) \/ Login(a) \/ TaskStart(a) \/ RunStage(a)

Next == \E a \in Actors : ActorStep(a)

Spec == Init /\ [][Next]_vars

\* the scheduler runs some actor as long as one of them can take a step
LiveSpec == Init /\ [][Next]_vars /\ WF_vars(Next)

(***************************************************************************)
(* Claims about the LoadFlow run (Spec, LiveSpec)                          *)
(***************************************************************************)
\* the iterations actor a has run to their end
IterationsCompleted(a) ==
    IF flow[a].pc \in Stages \cup {"task_login"}
    THEN flow[a].user_iteration_count - 1
    ELSE flow[a].user_iteration_count

\* no actor can take a step that changes the state
RunOver == ~ENABLED <<Next>>_vars

\* C1: in every reachable state of a run, completed_users never exceeds
\* total_users
C1_CompletedNeverExceedsTotal ==
    stop_manager.completed_users <= stop_manager.total_users

\* C2: user_completed_iteration returns global_stop = TRUE, and the stop is
\* requested, only once every one of the actors has completed its
\* max_iterations iterations
C2_NoGlobalStopBeforeAllReachQuota ==
    (obs.global_returns > 0 \/ stop_manager.should_stop)
        => \A a \in Actors : IterationsCompleted(a) >= CONFIG.max_iterations

\* C4: over a whole run the stop action (set_stop_called and runner.stop())
\* is executed exactly once: never twice, and once the run is over it has
\* been executed if some call returned global_stop = TRUE
C4_StopActionExactlyOnce ==
    /\ environment.runner_stop_calls <= 1
    /\ (RunOver /\ obs.global_returns > 0) => environment.runner_stop_calls = 1

C6_StagesInOrder ==
    [][ \A a \in Actors :
          LET s == flow[a].pc
              t == flow'[a].pc
          IN  /\ (t \in Stages /\ t # s) =>
                    \/ /\ s \in {"idle", "task_login"}
                       /\ t = "CREATE"
                       /\ flow'[a].user_iteration_count <= CONFIG.max_iterations
                    \/ /\ s \in Stages
                       /\ StageIndex(t) = StageIndex(s) + 1
                       /\ flow'[a].last_outcome = "ok"
                       /\ flow'[a].user_iteration_count = flow[a].user_iteration_count
              /\ (s \in Stages /\ t # s /\ flow'[a].last_outcome # "ok")
                    => t \notin Stages
      ]_vars

\* C6 witness: an actor is back at CREATE for its second iteration after a
\* failed stage ended its first one
C6_Witness ==
    \E a \in Actors : /\ flow[a].pc = "CREATE"
                      /\ flow[a].user_iteration_count = 2
                      /\ flow[a].last_outcome = "fail"

(***************************************************************************)
(* The StopManager under arbitrary callers (SpecCoord): any sequence of    *)
(* setup_scenario, user_completed_iteration and set_stop_called calls;     *)
(* the calls are serialized by the lock of the StopManager                 *)
(***************************************************************************)
CoordIds == 1..(NumActors + 1)

\* the calls user_id has made since the last setup_scenario
CallsOf(sm, user_id) ==
    IF user_id \in DOMAIN sm.user_iterations THEN sm.user_iterations[user_id] ELSE 0

CoordInit ==
    /\ \E k \in 1..MaxIterations : CONFIG = [ConfigDefault EXCEPT !.max_iterations = k]
    /\ stop_manager = StopManagerInit(CONFIG)
    /\ environment = [stop_manager_initialized |-> FALSE, runner_stop_calls |-> 0]
    /\ flow = << >>
    /\ csv_file = [exists |-> FALSE, chunks |-> 0]
    /\ total_chunks = count_chunks(csv_file)
    /\ request = RequestInit
    /\ upload = UploadInit
    /\ poll = PollInit
    /\ scenario = ScenarioInit(FALSE)
    /\ dashboard_pool = DashboardPoolInit
    /\ peak = PeakInit
    /\ obs = [global_returns |-> 0, last |-> << >>]

CoordSetup ==
    /\ \E n \in CoordIds \cup {None} :
          stop_manager' = setup_scenario(stop_manager, n, CONFIG)
    /\ obs' = [global_returns |-> 0, last |-> << >>]
    /\ UNCHANGED <<CONFIG, environment, flow, total_chunks, csv_file, request, upload, poll, scenario,
                   dashboard_pool, peak>>

\* one call more than the quota per user id is explored
CoordComplete ==
    /\ \E u \in CoordIds :
          /\ CallsOf(stop_manager, u) <= CONFIG.max_iterations
          /\ \E r \in {user_completed_iteration(stop_manager, u)} :
                /\ stop_manager' = r.sm
                /\ obs' = [global_returns |-> IF r.global_stop
                                              THEN obs.global_returns + 1
                                              ELSE obs.global_returns,
                           last |-> <<u, r.user_finished, r.global_stop>>]
    /\ UNCHANGED <<CONFIG, environment, flow, total_chunks, csv_file, request, upload, poll, scenario,
                   dashboard_pool, peak>>

CoordSetStopCalled ==
    /\ stop_manager' = set_stop_called(stop_manager)
    /\ UNCHANGED <<CONFIG, environment, flow, total_chunks, csv_file, request, upload, obs, poll, scenario,
                   dashboard_pool, peak>>

CoordNext == CoordSetup \/ CoordComplete \/ CoordSetStopCalled

SpecCoord == CoordInit /\ [][CoordNext]_vars

\* since the last setup_scenario(N), N distinct user ids have called
\* user_completed_iteration, each exactly max_iterations times
EachOfNCalledKTimes ==
    /\ Cardinality(DOMAIN stop_manager.user_iterations) = stop_manager.total_users
    /\ \A u \in DOMAIN stop_manager.user_iterations :
          stop_manager.user_iterations[u] = stop_manager.iterations_per_user

\* C3: when N distinct actors have called user_completed_iteration exactly
\* K times each, in any order, completed_users = N and exactly one of the
\* N*K calls returned global_stop = TRUE: the last one, which completed the
\* last actor
C3_ExactlyOneGlobalStop ==
    EachOfNCalledKTimes =>
        /\ stop_manager.completed_users = stop_manager.total_users
        /\ obs.global_returns = 1
        /\ obs.last[2] /\ obs.last[3]
        /\ stop_manager.should_stop

\* C3 witness: NumActors + 1 actors have each made MaxIterations calls
C3_Witness ==
    /\ EachOfNCalledKTimes
    /\ stop_manager.total_users = NumActors + 1
    /\ stop_manager.iterations_per_user = MaxIterations
    /\ obs.global_returns = 1

(***************************************************************************)
(* One call of Api._retry_request (SpecExec), a step per attempt and sleep *)
(***************************************************************************)
ExecConfigs ==
    { [ConfigDefault EXCEPT !.max_retries = m, !.retry_delay = d] :
        m \in 0..MaxRetries, d \in RetryDelays }

ExecInit ==
    /\ CONFIG \in ExecConfigs
    /\ stop_manager = StopManagerInit(CONFIG)
    /\ environment = [stop_manager_initialized |-> FALSE, runner_stop_calls |-> 0]
    /\ flow = << >>
    /\ csv_file = [exists |-> FALSE, chunks |-> 0]
    /\ total_chunks = count_chunks(csv_file)
    /\ request = RequestInit
    /\ upload = UploadInit
    /\ poll = PollInit
    /\ scenario = ScenarioInit(FALSE)
    /\ dashboard_pool = DashboardPoolInit
    /\ peak = PeakInit
    /\ obs = [global_returns |-> 0]

ExecCall ==
    /\ request.pc = "idle"
    /\ request' = retry_call(CONFIG)
    /\ UNCHANGED <<CONFIG, stop_manager, environment, flow, total_chunks,
                   csv_file, upload, obs, poll, scenario,
                   dashboard_pool, peak>>

ExecAttempt ==
    /\ request.pc = "attempt"
    /\ \E outcome \in AttemptOutcomes :
          request' = retry_attempt(request, outcome, CONFIG)
    /\ UNCHANGED <<CONFIG, stop_manager, environment, flow, total_chunks,
                   csv_file, upload, obs, poll, scenario,
                   dashboard_pool, peak>>

ExecSleep ==
    /\ request.pc = "sleep"
    /\ request' = retry_sleep(request, CONFIG)
    /\ UNCHANGED <<CONFIG, stop_manager, environment, flow, total_chunks,
                   csv_file, upload, obs, poll, scenario,
                   dashboard_pool, peak>>

ExecNext == ExecCall \/ ExecAttempt \/ ExecSleep

SpecExec == ExecInit /\ [][ExecNext]_vars

\* a server error or an exception of the method
Retryable(outcome) == outcome.raised \/ outcome.status_code >= 500

\* C9: when the first attempt of a call answers with a status below 400 or
\* with a client error 400-499, the call has returned that response after
\* this one attempt and without a sleep; a client error is marked as a
\* failure and is not retried
C9_NoRetryBelow500 ==
    (Len(request.history) >= 1 /\ ~Retryable(request.history[1])) =>
        /\ request.pc = "returned"
        /\ Len(request.history) = 1
        /\ request.sleeps = << >>
        /\ request.response = request.history[1].status_code
        /\ request.failure = (request.history[1].status_code >= 400)
        /\ ~request.escaped

\* C9 witness: a call allowed several attempts has returned a client error
C9_Witness ==
    /\ request.pc = "returned"
    /\ CONFIG.max_retries >= 2
    /\ Len(request.history) = 1
    /\ request.history[1].status_code \in 400..499
    /\ request.response = request.history[1].status_code

\* C10: no exception of the method leaves the call, and a call that has
\* returned after nothing but server errors and exceptions has made exactly
\* max_retries attempts and returned None
C10_ExhaustedReturnsNone ==
    /\ ~request.escaped
    /\ (/\ request.pc = "returned"
        /\ \A i \in 1..Len(request.history) : Retryable(request.history[i]))
       => /\ Len(request.history) = CONFIG.max_retries
          /\ request.response = None

\* C10 witness: MaxRetries attempts, server errors and exceptions among
\* them, and the call has returned None
C10_Witness ==
    /\ request.pc = "returned"
    /\ Len(request.history) = MaxRetries
    /\ \A i \in 1..Len(request.history) : Retryable(request.history[i])
    /\ \E i \in 1..Len(request.history) : request.history[i].raised
    /\ \E i \in 1..Len(request.history) : ~request.history[i].raised
    /\ request.response = None

\* the smaller of two numbers
Min(x, y) == IF x <= y THEN x ELSE y

\* C11: the i-th sleep of a call (after the failed attempt i - 1, 0-based)
\* lasts min(retry_delay * 2^(i-1), ceiling), so the sleeps never shrink and
\* never exceed the ceiling; a call that returns has slept once between two
\* attempts and not after its last one, so two server errors followed by a
\* success return the success after exactly two sleeps
C11_BackoffSleeps ==
    /\ \A i \in 1..Len(request.sleeps) :
          /\ request.sleeps[i] = Min(CONFIG.retry_delay * (2 ^ (i - 1)), MaxSleep)
          /\ request.sleeps[i] <= MaxSleep
          /\ i > 1 => request.sleeps[i - 1] <= request.sleeps[i]
    /\ request.sleeps # << >> =>
          Len(request.sleeps) <= Min(Len(request.history), CONFIG.max_retries - 1)
    /\ (request.pc = "returned" /\ request.history # << >>) =>
          Len(request.sleeps) = Len(request.history) - 1
    /\ (/\ Len(request.history) = 3
        /\ \A i \in 1..2 : /\ ~request.history[i].raised
                           /\ request.history[i].status_code >= 500
        /\ ~Retryable(request.history[3]))
       => /\ request.pc = "returned"
          /\ request.response = request.history[3].status_code
          /\ Len(request.sleeps) = 2

\* C11 witness: two server errors, then a success returned after two sleeps,
\* the second of them cut down to the ceiling
C11_Witness ==
    /\ request.pc = "returned"
    /\ Len(request.history) = 3
    /\ request.history[1].status_code = 500 /\ request.history[2].status_code = 500
    /\ request.response = 200
    /\ Len(request.sleeps) = 2
    /\ CONFIG.retry_delay * 2 > MaxSleep
    /\ request.sleeps[2] = MaxSleep

(***************************************************************************)
(* One call of Api._upload_chunks (SpecUpload); a call of _retry_request   *)
(* inside it is one step                                                   *)
(***************************************************************************)
UploadOutcomes == {Responded(200), Responded(400), Responded(500), Raised}

UploadSpecInit ==
    /\ CONFIG \in ExecConfigs
    /\ stop_manager = StopManagerInit(CONFIG)
    /\ environment = [stop_manager_initialized |-> FALSE, runner_stop_calls |-> 0]
    /\ flow = << >>
    /\ csv_file \in CsvFiles
    /\ total_chunks = count_chunks(csv_file)
    /\ request = RequestInit
    /\ upload = UploadInit
    /\ poll = PollInit
    /\ scenario = ScenarioInit(FALSE)
    /\ dashboard_pool = DashboardPoolInit
    /\ peak = PeakInit
    /\ obs = [global_returns |-> 0]

UploadCall ==
    /\ upload.pc = "idle"
    /\ upload' = upload_call(csv_file)
    /\ UNCHANGED <<CONFIG, stop_manager, environment, flow, total_chunks,
                   csv_file, request, obs, poll, scenario,
                   dashboard_pool, peak>>

UploadNextChunk ==
    /\ upload.pc = "next_chunk"
    /\ upload' = upload_next_chunk(upload, CONFIG)
    /\ UNCHANGED <<CONFIG, stop_manager, environment, flow, total_chunks,
                   csv_file, request, obs, poll, scenario,
                   dashboard_pool, peak>>

\* the block raises, or _retry_request runs to its end and returns
UploadAttempt ==
    /\ upload.pc = "attempt"
    /\ \/ upload' = upload_attempt(upload, TRUE, None, CONFIG)
       \/ \E outcomes \in [1..CONFIG.max_retries -> UploadOutcomes] :
             upload' = upload_attempt(upload, FALSE,
                                      retry_request(CONFIG, outcomes).response,
                                      CONFIG)
    /\ UNCHANGED <<CONFIG, stop_manager, environment, flow, total_chunks,
                   csv_file, request, obs, poll, scenario,
                   dashboard_pool, peak>>

UploadSleep ==
    /\ upload.pc = "sleep"
    /\ upload' = upload_sleep(upload, CONFIG)
    /\ UNCHANGED <<CONFIG, stop_manager, environment, flow, total_chunks,
                   csv_file, request, obs, poll, scenario,
                   dashboard_pool, peak>>

UploadNext == UploadCall \/ UploadNextChunk \/ UploadAttempt \/ UploadSleep

SpecUpload == UploadSpecInit /\ [][UploadNext]_vars

Chunks == 1..total_chunks

\* C7: uploaded_chunks never exceeds total_chunks and no exception leaves
\* the call; the value returned is total_chunks when every chunk got an
\* answer with resp.ok, and is smaller than total_chunks when some chunk
\* got none in all of its max_retries attempts
C7_UploadedCount ==
    /\ upload.uploaded_chunks <= total_chunks
    /\ ~upload.escaped
    /\ upload.pc = "returned" =>
          /\ (\A c \in Chunks : upload.acks[c] >= 1)
                => upload.uploaded_chunks = total_chunks
          /\ (\E c \in Chunks : upload.acks[c] = 0 /\ upload.tries[c] = CONFIG.max_retries)
                => upload.uploaded_chunks < total_chunks

\* C7 witness: a call has returned less than total_chunks, a chunk having
\* failed in all of its attempts and another one having been uploaded
C7_Witness ==
    /\ upload.pc = "returned"
    /\ CONFIG.max_retries >= 2
    /\ \E c \in Chunks : upload.acks[c] = 0 /\ upload.tries[c] = CONFIG.max_retries
    /\ \E c \in Chunks : upload.acks[c] >= 1
    /\ upload.uploaded_chunks < total_chunks

\* C8: the chunks are attempted in the order of the sequence, no chunk is
\* counted twice, and when the call returns every chunk has been attempted,
\* whatever chunks before it failed in all of their attempts
C8_FailedChunkDoesNotEndUpload ==
    /\ \A i \in 1..Len(upload.order) : upload.order[i] = i
    /\ upload.pc # "idle" => \A c \in Chunks : upload.counted[c] <= 1
    /\ (upload.pc = "returned" /\ CONFIG.max_retries >= 1) =>
          /\ Len(upload.order) = total_chunks
          /\ \A c \in Chunks : upload.tries[c] >= 1

\* C8 witness: the first chunk failed in all of its attempts and the last
\* chunk was uploaded after it
C8_Witness ==
    /\ upload.pc = "returned"
    /\ total_chunks = MaxChunks
    /\ CONFIG.max_retries >= 2
    /\ upload.acks[1] = 0 /\ upload.tries[1] = CONFIG.max_retries
    /\ upload.counted[total_chunks] = 1

(***************************************************************************)
(* One call of Api._monitor_processing_status (SpecPoll), while another    *)
(* actor may stop the run                                                  *)
(***************************************************************************)
PollSpecInit ==
    /\ \E i \in PollIntervals : CONFIG = [ConfigDefault EXCEPT !.pool_interval = i]
    /\ stop_manager = StopManagerInit(CONFIG)
    /\ environment = [stop_manager_initialized |-> FALSE, runner_stop_calls |-> 0]
    /\ flow = << >>
    /\ csv_file = [exists |-> FALSE, chunks |-> 0]
    /\ total_chunks = count_chunks(csv_file)
    /\ request = RequestInit
    /\ upload = UploadInit
    /\ poll = PollInit
    /\ scenario = ScenarioInit(FALSE)
    /\ dashboard_pool = DashboardPoolInit
    /\ peak = PeakInit
    /\ obs = [global_returns |-> 0]

PollCall ==
    /\ poll.pc = "idle"
    /\ \E is_pm_flow \in BOOLEAN, validate \in BOOLEAN, timeout \in 0..MaxWaitTime :
          poll' = poll_call(is_pm_flow, validate, timeout)
    /\ UNCHANGED <<CONFIG, stop_manager, environment, flow, total_chunks,
                   csv_file, request, upload, obs, scenario,
                   dashboard_pool, peak>>

PollCheck ==
    /\ poll.pc = "check"
    /\ poll' = poll_check(poll, stop_manager)
    /\ UNCHANGED <<CONFIG, stop_manager, environment, flow, total_chunks,
                   csv_file, request, upload, obs, scenario,
                   dashboard_pool, peak>>

PollReply ==
    /\ poll.pc = "request"
    /\ \E reply \in StatusReplies(poll.is_pm_flow), latency \in Latencies,
          validation \in ValidationOutcomes :
          poll' = poll_reply(poll, reply, latency, validation)
    /\ UNCHANGED <<CONFIG, stop_manager, environment, flow, total_chunks,
                   csv_file, request, upload, obs, scenario,
                   dashboard_pool, peak>>

PollSleep ==
    /\ poll.pc = "sleep"
    /\ poll' = poll_sleep(poll, CONFIG)
    /\ UNCHANGED <<CONFIG, stop_manager, environment, flow, total_chunks,
                   csv_file, request, upload, obs, scenario,
                   dashboard_pool, peak>>

\* another actor runs _safe_stop_runner
PollStopCalled ==
    /\ ~is_stop_called(stop_manager)
    /\ stop_manager' = set_stop_called(stop_manager)
    /\ UNCHANGED <<CONFIG, environment, flow, total_chunks, csv_file, request,
                   upload, poll, obs, scenario,
                   dashboard_pool, peak>>

PollNext == PollCall \/ PollCheck \/ PollReply \/ PollSleep \/ PollStopCalled

SpecPoll == PollSpecInit /\ [][PollNext]_vars

\* the answers of the call start with pending, pending
TwoPendingFirst ==
    /\ Len(poll.replies) >= 2
    /\ poll.replies[1] = "pending"
    /\ poll.replies[2] = "pending"

\* C12: a call answered pending, pending, success has made exactly three
\* status requests with one sleep of pool_interval after each of the first
\* two, and has returned success
C12_ThreePollsTwoSleeps ==
    poll.replies = <<"pending", "pending", "success">> =>
        /\ poll.pc = "returned"
        /\ poll.cause = "success"
        /\ poll.result.value \in {"True", "dict"}
        /\ poll.poll_count = 3
        /\ poll.sleeps = 2
        /\ poll.elapsed >= 2 * CONFIG.pool_interval

\* C12 witness: a file flow answered pending, pending, success returned True
C12_Witness ==
    /\ poll.replies = <<"pending", "pending", "success">>
    /\ poll.pc = "returned"
    /\ poll.result = ReturnTrue
    /\ poll.sleeps = 2

\* C13 as stated: with the answers pending, pending, success every timeout
\* shorter than 3 * pool_interval makes the call return a timeout: the third
\* request is not made
C13_TimeoutBelowThreeIntervals ==
    (TwoPendingFirst /\ poll.max_wait_time < 3 * CONFIG.pool_interval) =>
        /\ Len(poll.replies) = 2
        /\ poll.pc = "returned" => poll.cause = "timeout"

\* C13 amended: with the answers pending, pending, success every timeout of
\* at most 2 * pool_interval makes the call return a timeout: the third
\* request is not made
C13_TimeoutUpToTwoIntervals ==
    (TwoPendingFirst /\ poll.max_wait_time <= 2 * CONFIG.pool_interval) =>
        /\ Len(poll.replies) = 2
        /\ poll.pc = "returned" => poll.cause = "timeout"

\* C13 witness: a timeout of exactly 2 * pool_interval has expired after two
\* pending answers
C13_Witness ==
    /\ TwoPendingFirst
    /\ poll.max_wait_time = 2 * CONFIG.pool_interval
    /\ poll.pc = "returned"
    /\ poll.cause = "timeout"
    /\ poll.result = ReturnFalse

\* C14: the value returned when max_wait_time has expired differs from the
\* value returned for a failed status
C14_TimeoutDistinctFromFailed ==
    (poll.pc = "returned" /\ poll.cause = "timeout") =>
        poll.result # poll_failed(poll).result

\* C15: once the stop has been called, the next check at the head of the
\* loop returns False at once: no further status request is made and no
\* time passes
C15_StopEndsPoll ==
    [][ (poll.pc = "check" /\ is_stop_called(stop_manager) /\ poll' # poll) =>
          /\ poll'.pc = "returned"
          /\ poll'.result = ReturnFalse
          /\ poll'.poll_count = poll.poll_count
          /\ poll'.replies = poll.replies
          /\ poll'.elapsed = poll.elapsed
      ]_vars

\* C15 witness: a call has returned because of the stop, after a status
\* request and before its timeout
C15_Witness ==
    /\ poll.pc = "returned"
    /\ poll.cause = "stopped"
    /\ poll.poll_count >= 1
    /\ poll.elapsed < poll.max_wait_time

\* the answers that do not end the call
NonTerminalReplies == NonTerminalStatuses \cup {"request_failed"}

\* C16: an answer with a status other than success or failed, and a status
\* request without a usable response, are followed by the sleep; a call
\* whose last answer is one of these has returned only by its timeout or by
\* the stop
C16_NonTerminalContinues ==
    /\ [][ (Len(poll'.replies) = Len(poll.replies) + 1
            /\ poll'.replies[Len(poll'.replies)] \in NonTerminalReplies) =>
              /\ poll'.pc = "sleep"
              /\ poll'.result = NotReturned
         ]_vars
    /\ []( (/\ poll.pc = "returned"
            /\ poll.replies # << >>
            /\ poll.replies[Len(poll.replies)] \in NonTerminalReplies)
           => poll.cause \in {"timeout", "stopped"} )

\* C16 witness: a call went on after an unknown status and after a failed
\* request and then returned success
C16_Witness ==
    /\ Len(poll.replies) = 3
    /\ poll.replies[1] \in {"queued", "missing"}
    /\ poll.replies[2] = "request_failed"
    /\ poll.pc = "returned"
    /\ poll.cause = "success"

\* C17: the success of a PM flow returns the dict holding, for every block
\* reported with a block_run_id in any poll of the call, the run id reported
\* last
C17_BlockRunIdsKept ==
    (poll.pc = "returned" /\ poll.cause = "success" /\ poll.is_pm_flow) =>
        /\ poll.result.value = "dict"
        /\ poll.result.block_run_ids = poll.reported

\* C17 witness: the dict returned holds a block that the last answer did not
\* report, and a block whose run id the last answer reported
C17_Witness ==
    /\ poll.pc = "returned" /\ poll.cause = "success" /\ poll.is_pm_flow
    /\ \E b \in DOMAIN poll.result.block_run_ids : b \notin poll.last_blocks
    /\ \E b \in DOMAIN poll.result.block_run_ids : b \in poll.last_blocks

\* C18: the success of a file flow returns True whatever the validation of
\* the row count gave
C18_ValidationDoesNotFailPoll ==
    (poll.pc = "returned" /\ poll.cause = "success" /\ ~poll.is_pm_flow) =>
        /\ poll.result = ReturnTrue
        /\ poll.validate => poll.validation \in ValidationOutcomes

\* C18 witness: True was returned although the row count differs
C18_Witness ==
    /\ poll.pc = "returned" /\ poll.cause = "success" /\ ~poll.is_pm_flow
    /\ poll.validation \in {"different", "no_response", "raised"}
    /\ poll.result = ReturnTrue

(***************************************************************************)
(* The task runs of one TC_LOAD_002_Concurrent user (SpecScenario)         *)
(***************************************************************************)
ScenarioSpecInit ==
    /\ CONFIG = ConfigDefault
    /\ stop_manager = StopManagerInit(CONFIG)
    /\ environment = [stop_manager_initialized |-> FALSE, runner_stop_calls |-> 0]
    /\ flow = << >>
    /\ csv_file \in {f \in CsvFiles : f.chunks \in {0, MaxChunks}}
    /\ total_chunks = count_chunks(csv_file)
    /\ request = RequestInit
    /\ upload = UploadInit
    /\ poll = PollInit
    /\ \E logged_in \in BOOLEAN : scenario = ScenarioInit(logged_in)
    /\ dashboard_pool = DashboardPoolInit
    /\ peak = PeakInit
    /\ obs = [global_returns |-> 0]

ScenarioStart ==
    /\ scenario.pc = "idle"
    /\ scenario.runs_started < MaxScenarioRuns
    /\ \E auth_ok \in BOOLEAN : scenario' = scenario_start(scenario, auth_ok)
    /\ UNCHANGED <<CONFIG, stop_manager, environment, flow, total_chunks,
                   csv_file, request, upload, poll, obs,
                   dashboard_pool, peak>>

ScenarioStage ==
    /\ scenario.pc \in ScenarioStages
    /\ \E outcome \in Outcomes(scenario.pc) :
          scenario' = scenario_stage_done(scenario, scenario.pc, outcome, total_chunks)
    /\ UNCHANGED <<CONFIG, stop_manager, environment, flow, total_chunks,
                   csv_file, request, upload, poll, obs,
                   dashboard_pool, peak>>

ScenarioNext == ScenarioStart \/ ScenarioStage

SpecScenario == ScenarioSpecInit /\ [][ScenarioNext]_vars

\* C19: every task run that has ended has its record in test_runs, and the
\* record of a run that stopped at a failed stage has success = False
C19_EveryIterationRecorded ==
    scenario.pc = "idle" =>
        /\ Len(scenario.test_runs) = scenario.runs_started
        /\ scenario.last_end = "failed_stage" =>
              /\ scenario.test_runs # << >>
              /\ ~scenario.test_runs[Len(scenario.test_runs)].success

\* C20: a chunk transfer answered with a client error 400-499 is not issued
\* again, and no transfer of a later chunk follows it: the iteration is
\* aborted
C20_ClientErrorNotRetried ==
    /\ ~upload.reissued
    /\ ~upload.continued

(***************************************************************************)
(* One LoadFlow user with the data of the upload stages (SpecIteration):   *)
(* what _upload_chunks returned and what _finalize_file_upload sent.  The  *)
(* run was started with -u 1.                                              *)
(***************************************************************************)
\* create_and_upload_flow aborting the iteration when chunks are missing
upload_chunks_outcome_strict(uploaded_chunks, chunks) ==
    IF uploaded_chunks < chunks THEN "fail" ELSE "ok"

\* lines 264-265 of create_and_upload_flow: the count _upload_chunks returns
\* is logged and kept, whatever it is; the stage has not failed
upload_chunks_outcome(uploaded_chunks, chunks) == "ok"

\* _finalize_file_upload: the body of the finalize request
finalize_data(uploaded_chunks) == [count_chunks |-> uploaded_chunks]

\* the LoadFlow instance with the local uploaded_chunks of its task and the
\* body of the last finalize request it issued
IterationFlowInit(uid) ==
    LoadFlowInit(uid) @@ [uploaded_chunks |-> None, finalize_data |-> << >>]

IterationInit ==
    /\ \E k \in 1..MaxIterations : CONFIG = [ConfigDefault EXCEPT !.max_iterations = k]
    /\ stop_manager = StopManagerInit(CONFIG)
    /\ environment = [stop_manager_initialized |-> FALSE, runner_stop_calls |-> 0]
    /\ flow = [a \in {1} |-> IterationFlowInit(1)]
    /\ csv_file \in CsvFiles
    /\ total_chunks = count_chunks(csv_file)
    /\ request = RequestInit
    /\ upload = UploadInit
    /\ poll = PollInit
    /\ scenario = ScenarioInit(FALSE)
    /\ dashboard_pool = DashboardPoolInit
    /\ peak = PeakInit
    /\ obs = [global_returns |-> 0]

IterationOnStart ==
    /\ flow[1].pc = "created"
    /\ \E r \in {on_start(World(1), CONFIG, 1)} :
          Commit(1, r.w, IF r.login THEN "login" ELSE "idle")

\* the remote call of a stage other than the chunk upload is answered
IterationStage ==
    /\ flow[1].pc \in Stages \ {"UPLOAD_CHUNKS"}
    /\ RunStage(1)

\* _upload_chunks returns uploaded_chunks, or raises; after it the finalize
\* request is issued
IterationUpload ==
    /\ flow[1].pc = "UPLOAD_CHUNKS"
    /\ \/ \E r \in {stage_done(World(1), "UPLOAD_CHUNKS", "raise", total_chunks)} :
             Commit(1, r.w, PcAfter(r.next))
       \/ \E uploaded_chunks \in 0..total_chunks :
             \E r \in {stage_done(
                         [World(1) EXCEPT !.me.uploaded_chunks = uploaded_chunks],
                         "UPLOAD_CHUNKS",
                         upload_chunks_outcome(uploaded_chunks, total_chunks),
                         total_chunks)} :
                IF r.next = "UPLOAD_FINALIZE"
                THEN Commit(1, [r.w EXCEPT !.me.finalize_data =
                                   finalize_data(r.w.me.uploaded_chunks)],
                            PcAfter(r.next))
                ELSE Commit(1, r.w, PcAfter(r.next))

IterationNext ==
    IterationOnStart \/ Login(1) \/ TaskStart(1) \/ IterationStage \/ IterationUpload

SpecIteration == IterationInit /\ [][IterationNext]_vars

\* C21: when _upload_chunks has returned a count, whatever the shortfall,
\* the finalize request is issued next and carries exactly that count, and
\* once the finalize request is acknowledged the iteration goes on to
\* PROCESS_START with the count unchanged
C21_ShortfallStillFinalized ==
    [][ /\ (flow[1].pc = "UPLOAD_CHUNKS" /\ flow'[1].last_outcome # "raise"
              /\ flow'[1].pc # "UPLOAD_CHUNKS")
           => /\ flow'[1].pc = "UPLOAD_FINALIZE"
              /\ flow'[1].uploaded_chunks \in 0..total_chunks
              /\ flow'[1].finalize_data = [count_chunks |-> flow'[1].uploaded_chunks]
        /\ (flow[1].pc = "UPLOAD_FINALIZE" /\ flow'[1].last_outcome = "ok"
              /\ flow'[1].pc # "UPLOAD_FINALIZE")
           => /\ flow'[1].pc = "PROCESS_START"
              /\ flow'[1].finalize_data = flow[1].finalize_data
      ]_vars

\* C21 witness: no chunk of a file of MaxChunks chunks was uploaded, the
\* finalize request carried the count 0 and the iteration is at PROCESS_START
C21_Witness ==
    /\ total_chunks = MaxChunks
    /\ flow[1].pc = "PROCESS_START"
    /\ flow[1].uploaded_chunks = 0
    /\ flow[1].finalize_data = [count_chunks |-> 0]

\* C22: an actor whose authentication fails takes no further step, and the
\* failure is reported to the StopManager: the call count of its user id
\* grows by one in the step that removes it
C22_AuthFailureReported ==
    [][ \A a \in Actors :
          /\ flow[a].pc = "removed" => flow'[a] = flow[a]
          /\ (flow[a].pc # "removed" /\ flow'[a].pc = "removed")
                => CallsOf(stop_manager', flow[a].user_id)
                      = CallsOf(stop_manager, flow[a].user_id) + 1
      ]_vars

(***************************************************************************)
(* Every method of the StopManager under arbitrary callers (SpecManager).  *)
(* The calls are serialized by the lock; obs keeps the last call: its      *)
(* name, its argument, the StopManager before it and what it returned.     *)
(***************************************************************************)
Called(call, arg, before, returned) ==
    [call |-> call, arg |-> arg, before |-> before, returned |-> returned]

ManagerInit ==
    /\ \E k \in 1..MaxIterations : CONFIG = [ConfigDefault EXCEPT !.max_iterations = k]
    /\ stop_manager = StopManagerInit(CONFIG)
    /\ environment = [stop_manager_initialized |-> FALSE, runner_stop_calls |-> 0]
    /\ flow = << >>
    /\ csv_file = [exists |-> FALSE, chunks |-> 0]
    /\ total_chunks = count_chunks(csv_file)
    /\ request = RequestInit
    /\ upload = UploadInit
    /\ poll = PollInit
    /\ scenario = ScenarioInit(FALSE)
    /\ dashboard_pool = DashboardPoolInit
    /\ peak = PeakInit
    /\ obs = Called("__init__", None, stop_manager, None)

ManagerUnchanged ==
    UNCHANGED <<CONFIG, environment, flow, total_chunks, csv_file, request,
                upload, poll, scenario,
                   dashboard_pool, peak>>

ManagerSetup ==
    /\ \E n \in Actors \cup {None} :
          /\ stop_manager' = setup_scenario(stop_manager, n, CONFIG)
          /\ obs' = Called("setup_scenario", n, stop_manager, None)
    /\ ManagerUnchanged

\* one call more than the quota per user id is explored
ManagerComplete ==
    /\ \E u \in UserIds :
          /\ CallsOf(stop_manager, u) <= CONFIG.max_iterations
          /\ \E r \in {user_completed_iteration(stop_manager, u)} :
                /\ stop_manager' = r.sm
                /\ obs' = Called("user_completed_iteration", u, stop_manager,
                                 <<r.user_finished, r.global_stop>>)
    /\ ManagerUnchanged

ManagerShouldStop ==
    /\ obs' = Called("should_stop", None, stop_manager, should_stop(stop_manager))
    /\ UNCHANGED stop_manager
    /\ ManagerUnchanged

ManagerSetStopCalled ==
    /\ stop_manager' = set_stop_called(stop_manager)
    /\ obs' = Called("set_stop_called", None, stop_manager, None)
    /\ ManagerUnchanged

ManagerIsStopCalled ==
    /\ obs' = Called("is_stop_called", None, stop_manager, is_stop_called(stop_manager))
    /\ UNCHANGED stop_manager
    /\ ManagerUnchanged

ManagerGetStats ==
    /\ obs' = Called("get_stats", None, stop_manager, get_stats(stop_manager))
    /\ UNCHANGED stop_manager
    /\ ManagerUnchanged

ManagerNext ==
    \/ ManagerSetup
    \/ ManagerComplete
    \/ ManagerShouldStop
    \/ ManagerSetStopCalled
    \/ ManagerIsStopCalled
    \/ ManagerGetStats

SpecManager == ManagerInit /\ [][ManagerNext]_vars

\* C23: should_stop() returns TRUE exactly when completed_users >=
\* total_users and the stop has not been acknowledged; once set_stop_called()
\* has run, should_stop() is FALSE and stays FALSE until the next
\* setup_scenario, and a further set_stop_called() changes nothing
C23_ShouldStopIffQuotaAndNotAcknowledged ==
    /\ [](obs.call = "should_stop" =>
            obs.returned = (/\ stop_manager.completed_users >= stop_manager.total_users
                            /\ ~stop_manager.stop_called))
    /\ [](obs.call = "set_stop_called" =>
            /\ ~should_stop(stop_manager)
            /\ obs.before.stop_called => stop_manager = obs.before)
    /\ [][ (stop_manager.stop_called /\ obs'.call # "setup_scenario")
              => /\ stop_manager'.stop_called
                 /\ ~should_stop(stop_manager')
                 /\ obs'.call = "should_stop" => obs'.returned = FALSE ]_vars

\* C23 witness: should_stop() has returned FALSE with the quota reached,
\* because the stop was acknowledged
C23_Witness ==
    /\ obs.call = "should_stop"
    /\ obs.returned = FALSE
    /\ stop_manager.completed_users >= stop_manager.total_users
    /\ stop_manager.stop_called

\* C24: a call other than setup_scenario never takes the stop request back
\* and never lowers completed_users: between two setup_scenario calls
\* _should_stop goes from FALSE to TRUE at most once
C24_StopRequestMonotone ==
    [][ obs'.call # "setup_scenario"
          => /\ stop_manager.should_stop => stop_manager'.should_stop
             /\ stop_manager'.completed_users >= stop_manager.completed_users ]_vars

\* C24 witness: the stop request is still there after it was acknowledged
\* and a further iteration was reported
C24_Witness ==
    /\ obs.call = "user_completed_iteration"
    /\ obs.before.should_stop /\ obs.before.stop_called
    /\ stop_manager.should_stop
    /\ stop_manager.completed_users >= obs.before.completed_users

\* C25: setup_scenario(n), called in any state, leaves the StopManager in
\* the re-armed state of n (of 1 when n is None), and a second
\* setup_scenario(n) right after it changes nothing
C25_SetupRearms ==
    [][ obs'.call = "setup_scenario"
          => /\ stop_manager' =
                   [ iterations_per_user |-> CONFIG.max_iterations,
                     total_users         |-> IF obs'.arg = None THEN 1 ELSE obs'.arg,
                     completed_users     |-> 0,
                     user_iterations     |-> << >>,
                     should_stop         |-> FALSE,
                     stop_called         |-> FALSE ]
             /\ setup_scenario(stop_manager', obs'.arg, CONFIG) = stop_manager' ]_vars

\* C25 witness: setup_scenario(None) was called on a StopManager whose stop
\* was requested and acknowledged
C25_Witness ==
    /\ obs.call = "setup_scenario"
    /\ obs.arg = None
    /\ obs.before.should_stop /\ obs.before.stop_called
    /\ obs.before.completed_users > 0

(***************************************************************************)
(* The TC_LOAD_003 run (SpecPool, LivePool): the heavy users run their     *)
(* scenario and add dashboards, the light users wait for the pool and then *)
(* draw from it.  The users are gevent greenlets: a step is the code       *)
(* between two blocking points, and the steps interleave freely.           *)
(***************************************************************************)
PoolUnchanged ==
    UNCHANGED <<CONFIG, stop_manager, environment, flow, total_chunks, csv_file,
                request, upload, poll, scenario>>

PoolInit ==
    /\ CONFIG = ConfigDefault
    /\ stop_manager = StopManagerInit(CONFIG)
    /\ environment = [stop_manager_initialized |-> FALSE, runner_stop_calls |-> 0]
    /\ flow = << >>
    /\ csv_file \in {f \in CsvFiles : f.chunks \in {0, MaxChunks}}
    /\ total_chunks = count_chunks(csv_file)
    /\ request = RequestInit
    /\ upload = UploadInit
    /\ poll = PollInit
    /\ scenario = ScenarioInit(FALSE)
    /\ dashboard_pool = DashboardPoolInit
    /\ peak = [heavy |-> [h \in HeavyUsers |-> HeavyInit(h)],
               light |-> [l \in LightUsers |-> LightInit]]
    /\ obs = Called("__init__", None, None, None)

\* TC_LOAD_003_Heavy.on_start
HeavyOnStart(h) ==
    /\ peak.heavy[h].pc = "created"
    /\ \E auth_ok \in BOOLEAN :
          peak' = [peak EXCEPT !.heavy[h] = heavy_on_start(@, auth_ok)]
    /\ UNCHANGED <<dashboard_pool, obs>>
    /\ PoolUnchanged

\* the task heavy_etl_scenario is scheduled
HeavyStart(h) ==
    /\ peak.heavy[h].pc = "idle"
    /\ peak.heavy[h].runs_started < MaxHeavyRuns
    /\ peak' = [peak EXCEPT !.heavy[h] = heavy_start(@)]
    /\ UNCHANGED <<dashboard_pool, obs>>
    /\ PoolUnchanged

\* the remote call of the stage the heavy user is in is answered
HeavyStage(h) ==
    /\ peak.heavy[h].pc \in HeavyStages
    /\ \E outcome \in HeavyOutcomes(peak.heavy[h].pc) :
          \E r \in {heavy_stage_done([me |-> peak.heavy[h], pool |-> dashboard_pool],
                                     peak.heavy[h].pc, outcome, total_chunks)} :
             /\ peak' = [peak EXCEPT !.heavy[h] = r.me]
             /\ dashboard_pool' = r.pool
             /\ obs' = IF r.pool # dashboard_pool
                       THEN Called("add", h, count(dashboard_pool), count(r.pool))
                       ELSE obs
    /\ PoolUnchanged

\* TC_LOAD_003_Light.on_start: the authentication request is answered
LightOnStart(l) ==
    /\ peak.light[l].pc = "created"
    /\ \E auth_ok \in BOOLEAN, timeout \in PoolTimeouts :
          peak' = [peak EXCEPT !.light[l] =
                      light_on_start(@, dashboard_pool, auth_ok, timeout)]
    /\ UNCHANGED <<dashboard_pool, obs>>
    /\ PoolUnchanged

\* the sleep of a waiting light user is over
LightWake(l) ==
    /\ peak.light[l].pc = "waiting"
    /\ peak' = [peak EXCEPT !.light[l] = light_wake(@, dashboard_pool)]
    /\ UNCHANGED <<dashboard_pool, obs>>
    /\ PoolUnchanged

\* a task of the light user draws a dashboard
LightTask(l) ==
    /\ peak.light[l].pc = "running"
    /\ \E url \in get_random(dashboard_pool) :
          obs' = Called("get_random", l, count(dashboard_pool), url)
    /\ UNCHANGED <<dashboard_pool, peak>>
    /\ PoolUnchanged

LightStep(l) == LightOnStart(l) \/ LightWake(l) \/ LightTask(l)

HeavyStep(h) == HeavyOnStart(h) \/ HeavyStart(h) \/ HeavyStage(h)

PoolNext == (\E h \in HeavyUsers : HeavyStep(h)) \/ (\E l \in LightUsers : LightStep(l))

SpecPool == PoolInit /\ [][PoolNext]_vars

\* a greenlet whose request was answered or whose sleep is over is run
LivePool ==
    PoolInit /\ [][PoolNext]_vars
             /\ \A l \in LightUsers : WF_vars(LightOnStart(l) \/ LightWake(l))

\* C29: liveness - a light user waiting in wait_until_available while the
\* pool holds a dashboard comes out of the wait with TRUE and goes on to
\* its tasks, and every wait ends: no light user waits forever, whether a
\* dashboard is ever added or not
C29_WaitEnds ==
    \A l \in LightUsers :
        /\ [](( /\ peak.light[l].pc = "waiting"
                /\ has_dashboards(dashboard_pool) )
               => <>( /\ peak.light[l].pc = "running"
                      /\ peak.light[l].wait.result ))
        /\ [](peak.light[l].pc = "waiting" => <>(peak.light[l].pc # "waiting"))

\* C29 witness: a light user that slept in its wait is running: a dashboard
\* was added while it waited
C29_Witness ==
    \E l \in LightUsers :
        /\ peak.light[l].pc = "running"
        /\ peak.light[l].wait.slept
        /\ peak.light[l].wait.result
        /\ ~peak.light[l].wait.available_at_call

\* C30: a step adds a dashboard to the pool only as the end of a heavy run
\* whose first poll succeeded, whose second poll succeeded, whose artefact
\* lookup returned a url and whose dashboard loaded, and the entry added is
\* that url under the name of that user; a run that ends at a failed stage
\* or by an exception adds nothing
C30_OnlyLoadedDashboardsPublished ==
    [][ /\ dashboard_pool' # dashboard_pool
           => \E h \in HeavyUsers :
                 /\ peak.heavy[h].pc = "OPEN_DASHBOARD"
                 /\ peak'.heavy[h].pc = "idle"
                 /\ peak'.heavy[h].success
                 /\ peak'.heavy[h].pm_success
                 /\ peak'.heavy[h].dashboard_url \in DashboardUrls
                 /\ peak'.heavy[h].dashboard_loaded
                 /\ dashboard_pool'.dashboards =
                       Append(dashboard_pool.dashboards,
                              <<peak'.heavy[h].dashboard_url, h>>)
        /\ \A h \in HeavyUsers :
              ( /\ peak.heavy[h].pc \in HeavyStages
                /\ peak'.heavy[h].pc = "idle"
                /\ \/ peak'.heavy[h].last_end \in {"failed_stage", "raised"}
                   \/ ~peak'.heavy[h].dashboard_loaded )
              => dashboard_pool' = dashboard_pool
      ]_vars

\* C30 witness: the pool holds the dashboard of one heavy user and nothing
\* else, after the run of another one ended with a dashboard that did not
\* load
C30_Witness ==
    /\ Len(dashboard_pool.dashboards) = 1
    /\ \E h \in HeavyUsers :
          /\ dashboard_pool.dashboards[1][2] # h
          /\ peak.heavy[h].pc = "idle" /\ peak.heavy[h].last_end = "completed"
          /\ peak.heavy[h].dashboard_url \in DashboardUrls
          /\ ~peak.heavy[h].dashboard_loaded

(***************************************************************************)
(* The DashboardPool under arbitrary callers (SpecPoolApi): any            *)
(* interleaving of add, get_random, count, has_dashboards and              *)
(* wait_until_available calls.  peak.wait[c] is the wait_until_available   *)
(* call of caller c; obs is the last call, with the pool before it.        *)
(***************************************************************************)
MaxPoolSize == 2        \* add calls explored
Waiters == {1, 2}

PoolApiInit ==
    /\ CONFIG = ConfigDefault
    /\ stop_manager = StopManagerInit(CONFIG)
    /\ environment = [stop_manager_initialized |-> FALSE, runner_stop_calls |-> 0]
    /\ flow = << >>
    /\ csv_file = [exists |-> FALSE, chunks |-> 0]
    /\ total_chunks = count_chunks(csv_file)
    /\ request = RequestInit
    /\ upload = UploadInit
    /\ poll = PollInit
    /\ scenario = ScenarioInit(FALSE)
    /\ dashboard_pool = DashboardPoolInit
    /\ peak = [heavy |-> << >>, light |-> << >>, wait |-> [c \in Waiters |-> WaitInit]]
    /\ obs = Called("__init__", None, dashboard_pool, None)

ApiAdd ==
    /\ count(dashboard_pool) < MaxPoolSize
    /\ \E url \in DashboardUrls, owner \in HeavyUsers :
          /\ dashboard_pool' = add(dashboard_pool, url, owner)
          /\ obs' = Called("add", url, dashboard_pool, None)
    /\ UNCHANGED peak
    /\ PoolUnchanged

ApiGetRandom ==
    /\ \E url \in get_random(dashboard_pool) :
          obs' = Called("get_random", None, dashboard_pool, url)
    /\ UNCHANGED <<dashboard_pool, peak>>
    /\ PoolUnchanged

ApiCount ==
    /\ obs' = Called("count", None, dashboard_pool, count(dashboard_pool))
    /\ UNCHANGED <<dashboard_pool, peak>>
    /\ PoolUnchanged

ApiWaitCall(c) ==
    /\ peak.wait[c].pc # "sleep"
    /\ \E timeout \in PoolTimeouts :
          /\ peak' = [peak EXCEPT !.wait[c] = wait_until_available(dashboard_pool, timeout)]
          /\ obs' = Called("wait_until_available", timeout, dashboard_pool, c)
    /\ UNCHANGED dashboard_pool
    /\ PoolUnchanged

ApiWaitWake(c) ==
    /\ peak.wait[c].pc = "sleep"
    /\ peak' = [peak EXCEPT !.wait[c] = wait_wake(@, dashboard_pool)]
    /\ obs' = Called("wake", None, dashboard_pool, c)
    /\ UNCHANGED dashboard_pool
    /\ PoolUnchanged

PoolApiNext ==
    \/ ApiAdd
    \/ ApiGetRandom
    \/ ApiCount
    \/ \E c \in Waiters : ApiWaitCall(c)
    \/ \E c \in Waiters : ApiWaitWake(c)

SpecPoolApi == PoolApiInit /\ [][PoolApiNext]_vars

\* C26: whatever is called, the dashboards already in the pool stay where
\* they are, unchanged, and count() never goes down
C26_PoolAppendOnly ==
    [][ /\ count(dashboard_pool') >= count(dashboard_pool)
        /\ SubSeq(dashboard_pool'.dashboards, 1, Len(dashboard_pool.dashboards))
              = dashboard_pool.dashboards
        /\ obs'.call = "count" => obs'.returned >= count(obs.before)
      ]_vars

\* C26 witness: count() has returned MaxPoolSize after a waiter came back,
\* a dashboard was drawn and two different dashboards were added
C26_Witness ==
    /\ obs.call = "count"
    /\ obs.returned = MaxPoolSize
    /\ dashboard_pool.dashboards[1] # dashboard_pool.dashboards[2]
    /\ \E c \in Waiters : peak.wait[c].pc = "returned" /\ peak.wait[c].slept

\* C27: get_random() returns None exactly when the pool is empty; otherwise
\* it returns the url of a dashboard that was in the pool before the call;
\* the call leaves the pool as it was
C27_GetRandomReturnsPublished ==
    obs.call = "get_random" =>
        /\ (obs.returned = None) <=> (obs.before.dashboards = << >>)
        /\ obs.returned # None =>
              \E i \in 1..Len(obs.before.dashboards) :
                  obs.before.dashboards[i][1] = obs.returned
        /\ dashboard_pool = obs.before

\* C27 witness: get_random() has returned the url of the second of two
\* different dashboards
C27_Witness ==
    /\ obs.call = "get_random"
    /\ Len(dashboard_pool.dashboards) = 2
    /\ dashboard_pool.dashboards[1][1] # dashboard_pool.dashboards[2][1]
    /\ obs.returned = dashboard_pool.dashboards[2][1]

\* C28: a wait_until_available call on a pool that is not empty returns
\* TRUE without a sleep; a call returns TRUE only when its last check found
\* a dashboard in the pool, and FALSE only when its last check found the
\* pool empty with more than timeout seconds gone
C28_WaitResult ==
    [][ \A c \in Waiters :
          LET w == peak'.wait[c]
          IN  (w.pc = "returned" /\ peak.wait[c] # w) =>
                 /\ w.available_at_call => (w.result /\ ~w.slept)
                 /\ w.result => (w.seen /\ dashboard_pool'.dashboards # << >>)
                 /\ ~w.result => /\ ~w.seen
                                 /\ dashboard_pool'.dashboards = << >>
                                 /\ w.elapsed > w.timeout
      ]_vars

\* C28 witness: one call has returned FALSE after its timeout, another one
\* has returned TRUE without a sleep
C28_Witness ==
    /\ peak.wait[1].pc = "returned" /\ ~peak.wait[1].result /\ peak.wait[1].slept
    /\ peak.wait[2].pc = "returned" /\ peak.wait[2].result /\ ~peak.wait[2].slept
    /\ peak.wait[2].available_at_call

(***************************************************************************)
(* One call of Api._retry_request while another actor stops the run        *)
(* (SpecExecStop): the actions of SpecExec and set_stop_called             *)
(***************************************************************************)
ExecStopNext == ExecNext \/ PollStopCalled

SpecExecStop == ExecInit /\ [][ExecStopNext]_vars

\* C31: once the stop is set, a blocking point that comes out of its sleep
\* does not go on: the backoff sleep of _retry_request is not followed by
\* another attempt
C31_SleepRechecksStop ==
    [][ (is_stop_called(stop_manager) /\ request.pc = "sleep")
           => request'.pc # "attempt" ]_vars

(***************************************************************************)
(* Further claims about the LoadFlow run (Spec)                            *)
(***************************************************************************)
\* C32: once the StopManager has requested the stop, acknowledged or not,
\* no actor starts an iteration: no actor enters CREATE and no actor's
\* iteration counter grows
C32_NoIterationAfterStopRequest ==
    [][ stop_manager.should_stop =>
          \A a \in Actors :
              /\ (flow'[a].pc = "CREATE" => flow[a].pc = "CREATE")
              /\ flow'[a].user_iteration_count = flow[a].user_iteration_count
      ]_vars

\* C32 witness: the stop was requested while an actor had iterations left,
\* and the check at the start of its task has stopped that actor
C32_Witness ==
    /\ stop_manager.should_stop
    /\ \E a \in Actors : /\ flow[a].pc = "idle"
                         /\ flow[a].global_stop_triggered
                         /\ flow[a].user_iteration_count < CONFIG.max_iterations

\* C36: every iteration is reported exactly once: the calls of
\* user_completed_iteration counted for a user id are the iterations the
\* actors with that id have run to their end, and with an id of its own an
\* actor's count never exceeds max_iterations
C36_OneReportPerIteration ==
    \A u \in UserIds :
        LET mine == {a \in Actors : flow[a].user_id = u}
        IN  /\ \A a \in mine :
                  mine = {a} =>
                      /\ CallsOf(stop_manager, u) = IterationsCompleted(a)
                      /\ CallsOf(stop_manager, u) <= CONFIG.max_iterations
            /\ mine = {} => CallsOf(stop_manager, u) = 0

\* C37: an actor's iteration counter never exceeds max_iterations, and an
\* actor that has set user_stop_triggered or global_stop_triggered issues
\* no further remote call: it enters no stage and requests no login
C37_QuotaAndStopRespected ==
    /\ [](\A a \in Actors : flow[a].user_iteration_count <= CONFIG.max_iterations)
    /\ [][ \A a \in Actors :
             (flow[a].user_stop_triggered \/ flow[a].global_stop_triggered)
                => /\ flow'[a].pc \notin Stages \cup {"login", "task_login"}
                   /\ flow'[a].user_iteration_count = flow[a].user_iteration_count
         ]_vars

\* C37 witness: one actor has used up a quota of MaxIterations and has
\* stopped itself, and an actor that has seen the global stop is idle, where
\* its task can be scheduled again
C37_Witness ==
    /\ CONFIG.max_iterations = MaxIterations
    /\ \E a \in Actors : /\ flow[a].user_stop_triggered
                         /\ flow[a].user_iteration_count = MaxIterations
    /\ \E a \in Actors : /\ flow[a].global_stop_triggered
                         /\ flow[a].pc = "idle"

\* C38: setup_scenario runs once, in the on_start of the first actor to
\* start: the StopManager is set up in the step that marks the environment
\* initialized, while every actor is still to start and nothing is
\* recorded, the mark is never taken back, and no later step lowers a
\* recorded count
C38_SetupOnceByFirstActor ==
    [][ /\ environment.stop_manager_initialized => environment'.stop_manager_initialized
        /\ (~environment.stop_manager_initialized /\ environment'.stop_manager_initialized)
              => /\ \A a \in Actors : flow[a].pc = "created"
                 /\ stop_manager.user_iterations = << >>
                 /\ stop_manager'.total_users = NumActors
        /\ environment.stop_manager_initialized
              => /\ stop_manager'.total_users = stop_manager.total_users
                 /\ stop_manager'.completed_users >= stop_manager.completed_users
                 /\ \A u \in DOMAIN stop_manager.user_iterations :
                       /\ u \in DOMAIN stop_manager'.user_iterations
                       /\ stop_manager'.user_iterations[u] >= stop_manager.user_iterations[u]
        /\ \A a \in Actors :
              (flow[a].pc = "created" /\ flow'[a].pc # "created")
                 => environment'.stop_manager_initialized
      ]_vars

\* C38 witness: the last actor starts after another one has recorded an
\* iteration, and the record is still there
C38_Witness ==
    /\ \E a \in Actors : flow[a].pc = "login"
    /\ \E a \in Actors : /\ flow[a].user_iteration_count > 0
                         /\ CallsOf(stop_manager, flow[a].user_id) > 0
    /\ stop_manager.total_users = NumActors

(***************************************************************************)
(* The timeout of the upload and processing calls (SpecTimeout): one       *)
(* LoadFlow user with the local `timeout` of its task and the timeout      *)
(* argument each timed call was issued with.                               *)
(***************************************************************************)
TimeoutSmall == 300     \* CONFIG["upload_control"]["timeout_small"], seconds
TimeoutLarge == 3600    \* CONFIG["upload_control"]["timeout_large"], seconds

\* the calls that are given the timeout (lines 259, 268, 273-274, 280-283)
TimedStages == {"UPLOAD_START", "UPLOAD_FINALIZE", "PROCESS_START", "PROCESS_POLL"}

\* the large timeout already at the threshold
select_timeout_inclusive(chunks, cfg) ==
    IF chunks >= cfg.upload_control.chunk_threshold
    THEN cfg.upload_control.timeout_large
    ELSE cfg.upload_control.timeout_small

\* lines 252-256 of create_and_upload_flow
select_timeout(chunks, cfg) ==
    IF chunks > cfg.upload_control.chunk_threshold
    THEN cfg.upload_control.timeout_large
    ELSE cfg.upload_control.timeout_small

TimeoutFlowInit(uid) ==
    LoadFlowInit(uid) @@ [timeout |-> None, passed |-> [s \in TimedStages |-> None]]

\* the threshold is drawn around the chunk counts explored
TimeoutInit ==
    /\ \E k \in 1..MaxIterations, t \in 0..MaxChunks :
          CONFIG = [ConfigDefault EXCEPT !.max_iterations = k] @@
                   [upload_control |-> [timeout_small   |-> TimeoutSmall,
                                        timeout_large   |-> TimeoutLarge,
                                        chunk_threshold |-> t]]
    /\ stop_manager = StopManagerInit(CONFIG)
    /\ environment = [stop_manager_initialized |-> FALSE, runner_stop_calls |-> 0]
    /\ flow = [a \in {1} |-> TimeoutFlowInit(1)]
    /\ csv_file \in CsvFiles
    /\ total_chunks = count_chunks(csv_file)
    /\ request = RequestInit
    /\ upload = UploadInit
    /\ poll = PollInit
    /\ scenario = ScenarioInit(FALSE)
    /\ dashboard_pool = DashboardPoolInit
    /\ peak = PeakInit
    /\ obs = [global_returns |-> 0]

\* the task is scheduled: its locals are fresh
TimeoutTaskStart ==
    /\ flow[1].pc = "idle"
    /\ \E r \in {task_start([World(1) EXCEPT !.me.timeout = None,
                                             !.me.passed = [s \in TimedStages |-> None]],
                            CONFIG)} :
          Commit(1, r.w, PcAfter(r.next))

\* the remote call of a stage is answered; the task selects the timeout
\* before UPLOAD_START and issues each timed call with it
TimeoutStage ==
    /\ flow[1].pc \in Stages
    /\ \E outcome \in Outcomes(flow[1].pc) :
          \E r \in {stage_done(World(1), flow[1].pc, outcome, total_chunks)} :
             \E t \in {IF r.next = "UPLOAD_START"
                       THEN select_timeout(total_chunks, CONFIG)
                       ELSE r.w.me.timeout} :
                IF r.next \in TimedStages
                THEN Commit(1, [r.w EXCEPT !.me.timeout = t,
                                           !.me.passed[r.next] = t],
                            PcAfter(r.next))
                ELSE Commit(1, r.w, PcAfter(r.next))

TimeoutNext == IterationOnStart \/ Login(1) \/ TimeoutTaskStart \/ TimeoutStage

SpecTimeout == TimeoutInit /\ [][TimeoutNext]_vars

\* C33: each of UPLOAD_START, UPLOAD_FINALIZE, PROCESS_START and
\* PROCESS_POLL is issued with the large timeout when total_chunks is
\* strictly greater than chunk_threshold, and with the small timeout
\* otherwise, also when total_chunks equals the threshold
C33_TimeoutSelection ==
    flow[1].pc \in TimedStages =>
        /\ total_chunks > CONFIG.upload_control.chunk_threshold
              => flow[1].passed[flow[1].pc] = TimeoutLarge
        /\ total_chunks <= CONFIG.upload_control.chunk_threshold
              => flow[1].passed[flow[1].pc] = TimeoutSmall

\* C33 witness: the file has exactly chunk_threshold chunks and the
\* iteration has come to PROCESS_POLL, every timed call issued with the
\* small timeout
C33_Witness ==
    /\ total_chunks = CONFIG.upload_control.chunk_threshold
    /\ total_chunks > 0
    /\ flow[1].pc = "PROCESS_POLL"
    /\ \A s \in TimedStages : flow[1].passed[s] = TimeoutSmall

(***************************************************************************)
(* The critical sections of StopManager and DashboardPool (SpecLock):      *)
(* callers run the methods statement by statement; a method takes the      *)
(* lock of its object, runs the statements of its `with` block and         *)
(* releases the lock.                                                      *)
(***************************************************************************)
LockCallers == {1, 2}

LockedMethods ==
    {"add", "get_random", "has_dashboards", "count",
     "should_stop", "set_stop_called", "is_stop_called"}

\* the lock a method takes: DashboardPool.lock or StopManager._lock
lock_of(method) ==
    IF method \in {"add", "get_random", "has_dashboards", "count"}
    THEN "pool" ELSE "manager"

\* the statements inside the `with` block of a method: "memory" reads or
\* writes the fields of the object, "io" writes to the console
critical_section(method) ==
    IF method = "add" THEN << "memory", "io" >> ELSE << "memory" >>

\* op: the method a caller is in ("none" outside a call); at: 0 before the
\* lock is taken, k at the k-th statement of the block, past the last one
\* when the block is left
LockCallerInit == [op |-> "none", at |-> 0, url |-> None]

LockInit ==
    /\ CONFIG = ConfigDefault
    /\ stop_manager = StopManagerInit(CONFIG)
    /\ environment = [stop_manager_initialized |-> FALSE, runner_stop_calls |-> 0]
    /\ flow = << >>
    /\ csv_file = [exists |-> FALSE, chunks |-> 0]
    /\ total_chunks = count_chunks(csv_file)
    /\ request = RequestInit
    /\ upload = UploadInit
    /\ poll = PollInit
    /\ scenario = ScenarioInit(FALSE)
    /\ dashboard_pool = DashboardPoolInit
    /\ peak = [heavy |-> << >>, light |-> << >>,
               lock |-> [pool |-> 0, manager |-> 0],
               caller |-> [c \in LockCallers |-> LockCallerInit],
               console |-> 0]
    /\ obs = [io_inside_lock |-> FALSE]

LockUnchanged ==
    UNCHANGED <<CONFIG, environment, flow, total_chunks, csv_file, request,
                upload, poll, scenario>>

\* a method is called
LockCall(c) ==
    /\ peak.caller[c].op = "none"
    /\ \E method \in LockedMethods, url \in DashboardUrls :
          /\ method = "add" => peak.console + Cardinality({d \in LockCallers :
                                   peak.caller[d].op = "add"}) < MaxPoolSize
          /\ peak' = [peak EXCEPT !.caller[c] =
                         [op |-> method, at |-> 0,
                          url |-> IF method = "add" THEN url ELSE None]]
    /\ UNCHANGED <<stop_manager, dashboard_pool, obs>>
    /\ LockUnchanged

\* `with self.lock:` is entered
LockAcquire(c) ==
    /\ peak.caller[c].op # "none"
    /\ peak.caller[c].at = 0
    /\ peak.lock[lock_of(peak.caller[c].op)] = 0
    /\ peak' = [peak EXCEPT !.lock[lock_of(peak.caller[c].op)] = c,
                            !.caller[c].at = 1]
    /\ UNCHANGED <<stop_manager, dashboard_pool, obs>>
    /\ LockUnchanged

\* the next statement of the block runs
LockStatement(c) ==
    /\ peak.caller[c].op # "none"
    /\ peak.caller[c].at \in 1..Len(critical_section(peak.caller[c].op))
    /\ \E method \in {peak.caller[c].op} :
       \E kind \in {critical_section(method)[peak.caller[c].at]} :
          /\ dashboard_pool' =
                IF method = "add" /\ kind = "memory"
                THEN add(dashboard_pool, peak.caller[c].url, c)
                ELSE dashboard_pool
          /\ stop_manager' =
                IF method = "set_stop_called" /\ kind = "memory"
                THEN set_stop_called(stop_manager)
                ELSE stop_manager
          /\ peak' = [peak EXCEPT !.caller[c].at = @ + 1,
                                  !.console = IF kind = "io" THEN @ + 1 ELSE @]
          /\ obs' = [obs EXCEPT !.io_inside_lock =
                        @ \/ (kind = "io" /\ peak.lock[lock_of(method)] = c)]
    /\ LockUnchanged

\* the block is left and the method returns
LockRelease(c) ==
    /\ peak.caller[c].op # "none"
    /\ peak.caller[c].at > Len(critical_section(peak.caller[c].op))
    /\ peak' = [peak EXCEPT !.lock[lock_of(peak.caller[c].op)] = 0,
                            !.caller[c] = LockCallerInit]
    /\ UNCHANGED <<stop_manager, dashboard_pool, obs>>
    /\ LockUnchanged

LockNext ==
    \E c \in LockCallers :
        LockCall(c) \/ LockAcquire(c) \/ LockStatement(c) \/ LockRelease(c)

SpecLock == LockInit /\ [][LockNext]_vars

\* C34: while the lock of the StopManager or of the DashboardPool is held,
\* no statement writes to the console or does other I/O
C34_NoIoInsideLock == ~obs.io_inside_lock

(***************************************************************************)
(* split_csv_generator and count_chunks on the contents of the file        *)
(* (src/common/csv_utils.py), SpecChunk.  A file is the sequence of its    *)
(* characters: "x" stands for any character other than a line end, "LF"    *)
(* for \n and "CR" for \r.                                                 *)
(***************************************************************************)
MaxLen == 3             \* longest file explored, characters
MaxChunkSize == 2       \* largest chunk_size explored, characters

Chars == {"x", "LF", "CR"}

RECURSIVE FilesOfLength(_)
FilesOfLength(n) ==
    IF n = 0 THEN { << >> }
    ELSE { Append(f, c) : f \in FilesOfLength(n - 1), c \in Chars }

FileContents == UNION { FilesOfLength(n) : n \in 0..MaxLen }

\* what reading gives for a file opened with open(file_path, "r"): with
\* newline=None every \r\n and every other \r is read as \n
RECURSIVE read_text(_)
read_text(content) ==
    IF content = << >> THEN << >>
    ELSE IF Head(content) = "CR" /\ Len(content) > 1 /\ content[2] = "LF"
    THEN << "LF" >> \o read_text(SubSeq(content, 3, Len(content)))
    ELSE IF Head(content) = "CR"
    THEN << "LF" >> \o read_text(Tail(content))
    ELSE << Head(content) >> \o read_text(Tail(content))

\* chunk_text.rfind("\n"), counting from 1; 0 for -1
rfind_newline(chunk_text) ==
    IF \E i \in 1..Len(chunk_text) : chunk_text[i] = "LF"
    THEN CHOOSE i \in 1..Len(chunk_text) :
            /\ chunk_text[i] = "LF"
            /\ \A j \in (i + 1)..Len(chunk_text) : chunk_text[j] # "LF"
    ELSE 0

\* the generator before its first next(): the file is not open yet
ChunkSourceInit(content, chunk_size) ==
    [ pc           |-> "created",
      content      |-> content,
      chunk_size   |-> chunk_size,
      unread       |-> << >>,
      chunk_number |-> 1,
      leftover     |-> << >>,
      yielded      |-> << >>,
      count        |-> None ]

\* open(file_path, "r", encoding="utf-8")
chunk_open(g) == [g EXCEPT !.pc = "reading", !.unread = read_text(g.content)]

\* one turn of the `while True` loop: a read of chunk_size characters, and
\* what is yielded after it
chunk_read(g) ==
    LET n          == IF g.chunk_size < Len(g.unread) THEN g.chunk_size ELSE Len(g.unread)
        chunk_data == SubSeq(g.unread, 1, n)
        chunk_text == g.leftover \o chunk_data
        last       == rfind_newline(chunk_text)
        complete   == SubSeq(chunk_text, 1, last)
        rest       == SubSeq(chunk_text, last + 1, Len(chunk_text))
        chunk(t)   == [chunk_number |-> g.chunk_number, chunk_text |-> t]
    IN  IF chunk_data = << >>
        THEN [g EXCEPT !.pc = "exhausted",
                       !.yielded = IF g.leftover # << >>
                                   THEN Append(@, chunk(g.leftover)) ELSE @]
        ELSE [g EXCEPT !.unread = SubSeq(g.unread, n + 1, Len(g.unread)),
                       !.leftover = rest,
                       !.yielded = IF complete # << >>
                                   THEN Append(@, chunk(complete)) ELSE @,
                       !.chunk_number = IF complete # << >> THEN @ + 1 ELSE @]

\* count_chunks: sum(1 for _ in split_csv_generator(...))
chunk_count(g) == [g EXCEPT !.pc = "counted", !.count = Len(g.yielded)]

\* the contents of the chunks one after the other
RECURSIVE Concatenated(_)
Concatenated(chunks) ==
    IF chunks = << >> THEN << >>
    ELSE Head(chunks).chunk_text \o Concatenated(Tail(chunks))

ChunkInit ==
    /\ CONFIG = ConfigDefault
    /\ stop_manager = StopManagerInit(CONFIG)
    /\ environment = [stop_manager_initialized |-> FALSE, runner_stop_calls |-> 0]
    /\ flow = << >>
    /\ \E content \in FileContents, chunk_size \in 1..MaxChunkSize :
          csv_file = ChunkSourceInit(content, chunk_size)
    /\ total_chunks = 0
    /\ request = RequestInit
    /\ upload = UploadInit
    /\ poll = PollInit
    /\ scenario = ScenarioInit(FALSE)
    /\ dashboard_pool = DashboardPoolInit
    /\ peak = PeakInit
    /\ obs = [global_returns |-> 0]

ChunkUnchanged ==
    UNCHANGED <<CONFIG, stop_manager, environment, flow, total_chunks, request,
                upload, poll, scenario, dashboard_pool, peak, obs>>

ChunkOpen ==
    /\ csv_file.pc = "created"
    /\ csv_file' = chunk_open(csv_file)
    /\ ChunkUnchanged

ChunkRead ==
    /\ csv_file.pc = "reading"
    /\ csv_file' = chunk_read(csv_file)
    /\ ChunkUnchanged

ChunkCount ==
    /\ csv_file.pc = "exhausted"
    /\ csv_file' = chunk_count(csv_file)
    /\ ChunkUnchanged

ChunkNext == ChunkOpen \/ ChunkRead \/ ChunkCount

SpecChunk == ChunkInit /\ [][ChunkNext]_vars

\* C35: when the generator is exhausted, its chunks carry the numbers
\* 1..n in order, their contents one after the other are the contents of
\* the file, and count_chunks returns n
C35_ChunkRoundTrip ==
    csv_file.pc \in {"exhausted", "counted"} =>
        /\ \A i \in 1..Len(csv_file.yielded) : csv_file.yielded[i].chunk_number = i
        /\ Concatenated(csv_file.yielded) = csv_file.content
        /\ csv_file.pc = "counted" => csv_file.count = Len(csv_file.yielded)

(***************************************************************************)
(* One call of Api._upload_chunks under a fair scheduler (LiveUpload):     *)
(* the greenlet running the call is resumed after every request and sleep  *)
(***************************************************************************)
LiveUpload == UploadSpecInit /\ [][UploadNext]_vars /\ WF_vars(UploadNext)

\* C39: the upload of a chunk ends: a chunk gets at most max_retries
\* attempts of _upload_chunks, every one of them a call of _retry_request
\* with at most max_retries calls of the method; the k-th sleep between the
\* attempts of a chunk lasts retry_delay * k, and there is no sleep after a
\* success or after the last attempt
C39_ChunkUploadTerminates ==
    /\ [](/\ \A c \in DOMAIN upload.tries : upload.tries[c] <= CONFIG.max_retries
          /\ \A k \in 1..Len(upload.sleeps) : upload.sleeps[k] = CONFIG.retry_delay * k
          /\ Len(upload.sleeps) < CONFIG.max_retries \/ upload.sleeps = << >>
          /\ upload.pc = "sleep" =>
                /\ ~upload.success
                /\ upload.tries[upload.generator[upload.index]] < CONFIG.max_retries
          /\ upload.pc = "attempt" =>
                \A outcomes \in [1..(CONFIG.max_retries + 1) -> UploadOutcomes] :
                    Len(retry_request(CONFIG, outcomes).history) <= CONFIG.max_retries)
    /\ [][ upload'.sleeps # upload.sleeps =>
              \/ upload'.sleeps = << >>
              \/ /\ upload.pc = "sleep"
                 /\ Len(upload'.sleeps) = upload.tries[upload.generator[upload.index]]
         ]_vars
    /\ (upload.pc = "attempt") ~> (upload.pc = "next_chunk")
    /\ <>(upload.pc = "returned")

\* C39 witness: a chunk has failed in all of its MaxRetries attempts, with
\* MaxRetries - 1 sleeps between them, and the call has gone on
C39_Witness ==
    /\ CONFIG.max_retries = MaxRetries
    /\ upload.pc = "next_chunk"
    /\ upload.index > 0
    /\ ~upload.success
    /\ upload.generator[upload.index] # None
    /\ upload.tries[upload.generator[upload.index]] = MaxRetries
    /\ Len(upload.sleeps) = MaxRetries - 1

====
